---- MODULE Spec2Model ----
(***************************************************************************)
(* Verification model of the sequential tool-orchestration loop of the     *)
(* RAG chatbot backend: backend/ai_generator.py (SequentialToolProcessor,  *)
(* AIGenerator) and the dispatch of backend/search_tools.py (ToolManager). *)
(*                                                                         *)
(* Conventions.                                                            *)
(*  - A Python str that the code only concatenates or passes on is a       *)
(*    sequence of pieces (<<"Tool '", name, "' not found">>).              *)
(*  - A tool parameter value is [type |-> "str", words |-> <<...>>] (the   *)
(*    whitespace-separated words of the string, case kept) or              *)
(*    [type |-> "int", val |-> n].                                         *)
(*  - A float similarity is an exact fraction <<num, den>>, den > 0.       *)
(*  - time.time() of ToolCallRecord is never read and is left out.         *)
(***************************************************************************)
EXTENDS Integers, Sequences, FiniteSets, TLC

VARIABLES
    max_rounds,             \* AIGenerator.max_tool_rounds = SequentialToolProcessor.max_rounds
    tool_call_history,      \* SequentialToolProcessor.tool_call_history
    current_round,          \* SequentialToolProcessor.current_round
    gathered_info_summary,  \* SequentialToolProcessor.gathered_info_summary
    pc,                     \* position of the query in flight ("idle" when none)
    args,                   \* arguments of the generate_response call in flight
    messages,               \* local 'messages' of _handle_sequential_tool_rounds
    pending,                \* content blocks the for loop of _execute_tools_with_loop_detection has still to visit
    tool_results,           \* local 'tool_results' of _execute_tools_with_loop_detection
    api_calls,              \* keyword arguments of every client.messages.create call of the query
    api_responses,          \* what each of those calls produced (a response or a raised exception)
    tool_execs,             \* every tool_manager.execute_tool call of the query, with its outcome and the sources it assigned
    result,                 \* how the latest generate_response call ended
    tm_tools,               \* ToolManager.tools: the registered tool names, in insertion order
    last_sources,           \* last_sources of the CourseSearchTool and of the CourseOutlineTool
    latest_sources,         \* the tool that assigned last_sources most recently, with the list it assigned
    tm_log,                 \* the latest ToolManager call since generate_response was last entered
    proc_log,               \* the latest direct call of a SequentialToolProcessor method
    other_query             \* the locals of a second generate_response call in flight on the same generator

vars == <<max_rounds, tool_call_history, current_round, gathered_info_summary,
          pc, args, messages, pending, tool_results,
          api_calls, api_responses, tool_execs, result,
          tm_tools, last_sources, latest_sources, tm_log, proc_log, other_query>>

(***************************************************************************)
(* Bounds and input sets                                                   *)
(***************************************************************************)
MaxRoundsBound == 2
MaxHistory == 4    \* records a directly driven processor holds at most

StrV(ws) == [type |-> "str", words |-> ws]
IntV(n) == [type |-> "int", val |-> n]

\* str.lower() on the words used in the inputs
Lower(w) ==
    CASE w = "Python" -> "python"
      [] w = "Basics" -> "basics"
      [] w = "Course" -> "course"
      [] OTHER -> w

SearchName == "search_course_content"
OutlineName == "get_course_outline"
UnknownName == "get_weather"

ParamsPython == [query |-> StrV(<<"python", "basics">>)]
ParamsNode == [query |-> StrV(<<"node", "auth">>)]
ParamsCourse == [course_name |-> StrV(<<"Python", "Course">>)]

ToolUse(n, p, i) == [type |-> "tool_use", name |-> n, input |-> p, id |-> i]
TextBlock(t) == [type |-> "text", text |-> t]

ReqA(i) == ToolUse(SearchName, ParamsPython, i)
ReqB(i) == ToolUse(SearchName, ParamsNode, i)
ReqC(i) == ToolUse(OutlineName, ParamsCourse, i)
ReqU(i) == ToolUse(UnknownName, ParamsNode, i)

Response(sr, c) == [stop_reason |-> sr, content |-> c]

AnswerTexts == {<<"Python is a language.">>, <<"Based on the search results, Python is...">>}

\* responses of the reasoning model to a call that carries tool schemas
ToolResponses ==
    {Response("end_turn", <<TextBlock(t)>>) : t \in AnswerTexts}
    \cup {Response("end_turn", <<>>)}
    \cup {Response("tool_use", c) : c \in
            { <<ReqA("tu1")>>,
              <<ReqB("tu1")>>,
              <<ReqU("tu1")>>,
              <<ReqA("tu1"), ReqA("tu2")>>,
              <<ReqA("tu1"), ReqC("tu2")>>,
              <<ReqA("tu1"), ReqA("tu2"), ReqA("tu3")>>,
              <<TextBlock(<<"Let me search.">>), ReqB("tu1")>>,
              <<TextBlock(<<"Let me search.">>)>> }}

\* responses of the reasoning model to a call that carries no tool schemas
PlainResponses ==
    {Response("end_turn", <<TextBlock(t)>>) : t \in AnswerTexts}
    \cup {Response("end_turn", <<>>)}

ApiErrors == {"API rate limit exceeded"}
ToolErrors == {"Database connection failed"}

NoError == ""      \* SearchResults.error None or "" (both falsy)
NoTitle == ""      \* _resolve_course_name returning None
NoLink == ""       \* a link that is None
NoMetadata == <<>> \* _get_course_metadata returning None

\* SearchResults as CourseSearchTool reads it
SearchResults(documents, metadata, error) ==
    [documents |-> documents, metadata |-> metadata, error |-> error]

Meta(course_title, lesson_number) == [course_title |-> course_title, lesson_number |-> lesson_number]
MetaNoLesson(course_title) == [course_title |-> course_title]

ErrorResults == SearchResults(<<>>, <<>>, "Test error message")
EmptyResults == SearchResults(<<>>, <<>>, NoError)
OneResult == SearchResults(<<"First document about variables">>, <<Meta("Python Course", 1)>>, NoError)
TwoResults ==
    SearchResults(<<"First document about variables", "Course overview content">>,
                  <<Meta("Python Course", 1), MetaNoLesson("Python Course")>>, NoError)
UntitledResult == SearchResults(<<"Second document about functions">>, <<[lesson_number |-> 0]>>, NoError)

Lesson(n, title, link) == [lesson_number |-> n, lesson_title |-> title, lesson_link |-> link]

CourseMetadata ==
    [title |-> "Python Course", course_link |-> "http://example.com/course", instructor |-> "Jane Smith",
     lessons |-> <<Lesson(1, "Introduction to Python", "http://example.com/lesson1"),
                   Lesson(2, "Control Flow", NoLink)>>]
BareMetadata == [title |-> "Python Course"]

\* what the vector store answers during one execution of a tool
Store(search, resolved, metadata) == [search |-> search, resolved |-> resolved, metadata |-> metadata]

Queries == {"What is Python?"}
NoHistory == ""    \* conversation_history None or "" (both falsy)
Histories == {NoHistory, "User: hi / Assistant: hello"}
NoTools == <<>>    \* tools None or [] (both falsy)
EmptyParams == <<>>    \* the parameter mapping {}
ToolSchemas == <<SearchName, OutlineName>>

(***************************************************************************)
(* SequentialToolProcessor                                                 *)
(***************************************************************************)
LoopSimilarityThreshold == <<8, 10>>
RecentWindow == 3

ToolCallRecord(n, p, r) == [tool_name |-> n, parameters |-> p, round_num |-> r]

WordSet(v) == {Lower(v.words[i]) : i \in 1..Len(v.words)}

_string_similarity(s1, s2) ==
    LET s1_words == WordSet(s1)
        s2_words == WordSet(s2)
    IN  IF s1_words = {} /\ s2_words = {} THEN <<1, 1>>
        ELSE IF s1_words = {} \/ s2_words = {} THEN <<0, 1>>
        ELSE <<Cardinality(s1_words \cap s2_words), Cardinality(s1_words \cup s2_words)>>

ValueEq(a, b) ==
    /\ a.type = b.type
    /\ IF a.type = "str" THEN a.words = b.words ELSE a.val = b.val

KeySimilarity(a, b) ==
    IF ValueEq(a, b) THEN <<1, 1>>
    ELSE IF a.type = "str" /\ b.type = "str" THEN _string_similarity(a, b)
    ELSE <<0, 1>>

FracAdd(x, y) == <<x[1] * y[2] + y[1] * x[2], x[2] * y[2]>>
FracGt(x, y) == x[1] * y[2] > y[1] * x[2]

RECURSIVE TotalSimilarity(_, _, _)
TotalSimilarity(keys, params1, params2) ==
    IF keys = {} THEN <<0, 1>>
    ELSE LET key == CHOOSE k \in keys : TRUE
         IN  FracAdd(KeySimilarity(params1[key], params2[key]),
                     TotalSimilarity(keys \ {key}, params1, params2))

\* _calculate_parameter_similarity dividing by the number of keys of either mapping
_calculate_parameter_similarity_over_all_keys(params1, params2) ==
    LET common_keys == (DOMAIN params1) \cap (DOMAIN params2)
        total == TotalSimilarity(common_keys, params1, params2)
    IN  IF DOMAIN params1 = {} /\ DOMAIN params2 = {} THEN <<1, 1>>
        ELSE IF DOMAIN params1 = {} \/ DOMAIN params2 = {} THEN <<0, 1>>
        ELSE IF common_keys = {} THEN <<0, 1>>
        ELSE <<total[1], total[2] * Cardinality((DOMAIN params1) \cup (DOMAIN params2))>>

\* _calculate_parameter_similarity without its first test
_calculate_parameter_similarity_no_both_empty(params1, params2) ==
    LET common_keys == (DOMAIN params1) \cap (DOMAIN params2)
        total == TotalSimilarity(common_keys, params1, params2)
    IN  IF DOMAIN params1 = {} \/ DOMAIN params2 = {} THEN <<0, 1>>
        ELSE IF common_keys = {} THEN <<0, 1>>
        ELSE <<total[1], total[2] * Cardinality(common_keys)>>

_calculate_parameter_similarity(params1, params2) ==
    LET common_keys == (DOMAIN params1) \cap (DOMAIN params2)
        total == TotalSimilarity(common_keys, params1, params2)
    IN  IF DOMAIN params1 = {} /\ DOMAIN params2 = {} THEN <<1, 1>>
        ELSE IF DOMAIN params1 = {} \/ DOMAIN params2 = {} THEN <<0, 1>>
        ELSE IF common_keys = {} THEN <<0, 1>>
        ELSE <<total[1], total[2] * Cardinality(common_keys)>>

Recent(h) == SubSeq(h, IF Len(h) > RecentWindow THEN Len(h) - RecentWindow + 1 ELSE 1, Len(h))

\* detect_loop without the guard on the length of the history
detect_loop_unguarded(history, tool_name, parameters) ==
    \E i \in 1..Len(Recent(history)) :
        /\ Recent(history)[i].tool_name = tool_name
        /\ FracGt(_calculate_parameter_similarity(Recent(history)[i].parameters, parameters),
                  LoopSimilarityThreshold)

\* detect_loop with "at least the threshold" for "above the threshold"
detect_loop_at_threshold(history, tool_name, parameters) ==
    IF Len(history) < 2 THEN FALSE
    ELSE \E i \in 1..Len(Recent(history)) :
            /\ Recent(history)[i].tool_name = tool_name
            /\ ~FracGt(LoopSimilarityThreshold,
                       _calculate_parameter_similarity(Recent(history)[i].parameters, parameters))

detect_loop(history, tool_name, parameters) ==
    IF Len(history) < 2 THEN FALSE
    ELSE \E i \in 1..Len(Recent(history)) :
            /\ Recent(history)[i].tool_name = tool_name
            /\ FracGt(_calculate_parameter_similarity(Recent(history)[i].parameters, parameters),
                      LoopSimilarityThreshold)

\* should_continue_rounds off by one
should_continue_rounds_inclusive(r, mx) == r <= mx

should_continue_rounds(r, mx) == r < mx

\* get_round_type reading the counter as it was before the increment of the round
get_round_type_before_increment(r, mx) ==
    IF r - 1 = 0 THEN "first_round"
    ELSE IF r - 1 < mx THEN "follow_up_round"
    ELSE "final_round"

\* get_round_type taking the last round for a follow-up round
get_round_type_inclusive(r, mx) ==
    IF r = 0 THEN "first_round"
    ELSE IF r <= mx THEN "follow_up_round"
    ELSE "final_round"

get_round_type(r, mx) ==
    IF r = 0 THEN "first_round"
    ELSE IF r < mx THEN "follow_up_round"
    ELSE "final_round"

\* the words of content.lower() that update_gathered_info looks for, per piece of text
PieceKeywords(piece) ==
    CASE piece = "Loop detected: Similar search already performed. Please synthesize available information." -> {"search"}
      [] piece = "execute() missing 1 required positional argument: 'course_name'" -> {"course"}
      [] piece = SearchName -> {"course", "search"}
      [] piece = OutlineName -> {"course", "outline"}
      [] piece = " in course '" -> {"course"}
      [] piece = " in lesson " -> {"lesson"}
      [] piece = " - Lesson " -> {"lesson"}
      [] piece = "Python Course" -> {"course"}
      [] piece = "Course overview content" -> {"course"}
      [] piece = "Course" -> {"course"}
      [] piece = "No course found matching '" -> {"course"}
      [] piece = "Could not retrieve metadata for course '" -> {"course"}
      [] piece = "Unknown Course" -> {"course"}
      [] piece = "Unknown Lesson" -> {"lesson"}
      [] piece = "Course Link: " -> {"course"}
      [] piece = "http://example.com/course" -> {"course"}
      [] piece = "\n**Lessons (" -> {"lesson"}
      [] piece = "\nNo lessons found for this course." -> {"course", "lesson"}
      [] piece = "http://example.com/lesson1" -> {"lesson"}
      [] OTHER -> {}

\* len(piece)
PieceLength(piece) ==
    CASE piece = "Loop detected: Similar search already performed. Please synthesize available information." -> 89
      [] piece = "Tool execution error: " -> 22
      [] piece = ". Please work with available information." -> 41
      [] piece = "Database connection failed" -> 26
      [] piece = "execute() missing 1 required positional argument: 'query'" -> 57
      [] piece = "execute() missing 1 required positional argument: 'course_name'" -> 63
      [] piece = "execute() got an unexpected keyword argument" -> 44
      [] piece = "Tool '" -> 6
      [] piece = "' not found" -> 11
      [] piece = SearchName -> 21
      [] piece = OutlineName -> 18
      [] piece = UnknownName -> 11
      [] piece = "Test error message" -> 18
      [] piece = "No relevant content found" -> 25
      [] piece = " in course '" -> 12
      [] piece = "'" -> 1
      [] piece = " in lesson " -> 11
      [] piece = "." -> 1
      [] piece = "[" -> 1
      [] piece = "]" -> 1
      [] piece = " - Lesson " -> 10
      [] piece = "\n" -> 1
      [] piece = "\n\n" -> 2
      [] piece = " " -> 1
      [] piece = "unknown" -> 7
      [] piece = "None" -> 4
      [] piece = "?" -> 1
      [] piece = "Python Course" -> 13
      [] piece = "First document about variables" -> 30
      [] piece = "Course overview content" -> 23
      [] piece = "Second document about functions" -> 31
      [] piece = "python" -> 6
      [] piece = "basics" -> 6
      [] piece = "node" -> 4
      [] piece = "auth" -> 4
      [] piece = "Python" -> 6
      [] piece = "Course" -> 6
      [] piece = "Basics" -> 6
      [] piece = "0" -> 1
      [] piece = "1" -> 1
      [] piece = "2" -> 1
      [] piece = "3" -> 1
      [] piece = "4" -> 1
      [] piece = "5" -> 1
      [] piece = "6" -> 1
      [] piece = "7" -> 1
      [] piece = "8" -> 1
      [] piece = "9" -> 1
      [] piece = "No course found matching '" -> 26
      [] piece = "Could not retrieve metadata for course '" -> 40
      [] piece = "**" -> 2
      [] piece = "Instructor: " -> 12
      [] piece = "Jane Smith" -> 10
      [] piece = "Unknown Instructor" -> 18
      [] piece = "Unknown Course" -> 14
      [] piece = "Unknown Lesson" -> 14
      [] piece = "Course Link: " -> 13
      [] piece = "http://example.com/course" -> 25
      [] piece = "\n**Lessons (" -> 12
      [] piece = " total):**" -> 10
      [] piece = "\nNo lessons found for this course." -> 34
      [] piece = ". " -> 2
      [] piece = "Introduction to Python" -> 22
      [] piece = "Control Flow" -> 12
      [] piece = " - [Link](" -> 10
      [] piece = "http://example.com/lesson1" -> 26
      [] piece = ")" -> 1

Contains(text, kw) == \E i \in 1..Len(text) : kw \in PieceKeywords(text[i])

RECURSIVE TextLength(_)
TextLength(text) == IF text = <<>> THEN 0 ELSE PieceLength(Head(text)) + TextLength(Tail(text))

LongContent == 200

\* the category update_gathered_info gives one tool result ("" when none)
InfoType(content) ==
    IF Contains(content, "course") /\ Contains(content, "outline") THEN "course_outline"
    ELSE IF Contains(content, "lesson") THEN "lesson_content"
    ELSE IF Contains(content, "search") \/ TextLength(content) > LongContent THEN "search_results"
    ELSE ""

\* set(info_types)
InfoTypes(results) == {InfoType(results[i].content) : i \in 1..Len(results)} \ {""}

\* ", ".join(s) of a set s: the elements of s in some order, each once
Joined(s) == {q \in [1..Cardinality(s) -> s] : \A e \in s : \E i \in DOMAIN q : q[i] = e}

\* the values gathered_info_summary can take after update_gathered_info(results)
update_gathered_info(results) == Joined(InfoTypes(results))

(***************************************************************************)
(* CourseSearchTool and CourseOutlineTool                                  *)
(***************************************************************************)
Returned(v) == [status |-> "returned", value |-> v]
Raised(e) == [status |-> "raised", value |-> e]
NoResult == [status |-> "none"]

NoneV == [type |-> "none"]    \* a keyword argument left at its default None

\* kwargs.get(key), None when the key is absent
Arg(kwargs, key) == IF key \in DOMAIN kwargs THEN kwargs[key] ELSE NoneV

\* bool(v) of a parameter value
Truthy(v) ==
    CASE v.type = "str" -> v.words # <<>>
      [] v.type = "int" -> v.val # 0
      [] OTHER -> FALSE

\* str(n) of the integers of the inputs
IntStr(n) ==
    CASE n = 0 -> "0" [] n = 1 -> "1" [] n = 2 -> "2" [] n = 3 -> "3" [] n = 4 -> "4"
      [] n = 5 -> "5" [] n = 6 -> "6" [] n = 7 -> "7" [] n = 8 -> "8" [] n = 9 -> "9"

RECURSIVE JoinWith(_, _)
\* sep.join(parts), each part a text
JoinWith(parts, sep) ==
    IF parts = <<>> THEN <<>>
    ELSE IF Len(parts) = 1 THEN parts[1]
    ELSE parts[1] \o <<sep>> \o JoinWith(Tail(parts), sep)

\* f"{v}" of a parameter value
Format(v) ==
    CASE v.type = "str" -> JoinWith([i \in 1..Len(v.words) |-> <<v.words[i]>>], " ")
      [] v.type = "int" -> <<IntStr(v.val)>>
      [] OTHER -> <<"None">>

Source(text, link) == [text |-> text, link |-> link]

\* store.get_lesson_link for the lessons of the inputs
get_lesson_link(course_title, lesson_num) ==
    IF course_title = "Python Course" /\ lesson_num = 1 THEN "http://example.com/lesson1"
    ELSE NoLink

\* SearchResults.is_empty
is_empty(results) == Len(results.documents) = 0

\* what one execution of a tool gives: how it ended, the tool's last_sources after it, and
\* whether it assigned last_sources
Execution(outcome, sources, produced) ==
    [outcome |-> outcome, last_sources |-> sources, produced |-> produced]

\* the filter_info of the empty-result message
FilterInfo(course_name, lesson_number) ==
    (IF Truthy(course_name) THEN <<" in course '">> \o Format(course_name) \o <<"'">> ELSE <<>>)
    \o (IF Truthy(lesson_number) THEN <<" in lesson ">> \o Format(lesson_number) ELSE <<>>)

\* meta.get('course_title', 'unknown')
CourseTitleOf(meta) == IF "course_title" \in DOMAIN meta THEN meta.course_title ELSE "unknown"

\* meta.get('lesson_number') is not None
HasLesson(meta) == "lesson_number" \in DOMAIN meta

\* the lesson part tested by truthiness, as the empty-result message tests its filters
LessonPart_truthy(meta) ==
    IF HasLesson(meta) /\ meta.lesson_number # 0 THEN <<" - Lesson ", IntStr(meta.lesson_number)>> ELSE <<>>

LessonPart(meta) == IF HasLesson(meta) THEN <<" - Lesson ", IntStr(meta.lesson_number)>> ELSE <<>>

Header(meta) == <<"[", CourseTitleOf(meta)>> \o LessonPart(meta) \o <<"]">>

SourceData(meta) ==
    Source(<<CourseTitleOf(meta)>> \o LessonPart(meta),
           IF HasLesson(meta) THEN get_lesson_link(CourseTitleOf(meta), meta.lesson_number) ELSE NoLink)

\* the pairs of zip(results.documents, results.metadata)
ZipLength(results) ==
    IF Len(results.documents) < Len(results.metadata) THEN Len(results.documents)
    ELSE Len(results.metadata)

\* CourseSearchTool._format_results: the text returned and the sources assigned to last_sources
_format_results(results) ==
    [text |-> JoinWith([i \in 1..ZipLength(results) |->
                           Header(results.metadata[i]) \o <<"\n", results.documents[i]>>], "\n\n"),
     sources |-> [i \in 1..ZipLength(results) |-> SourceData(results.metadata[i])]]

SearchArgNames == {"query", "course_name", "lesson_number"}

\* CourseSearchTool.execute testing for an empty result set before it tests for an error
CourseSearchTool_execute_empty_first(kwargs, store, sources) ==
    IF "query" \notin DOMAIN kwargs
    THEN Execution(Raised("execute() missing 1 required positional argument: 'query'"), sources, FALSE)
    ELSE IF ~(DOMAIN kwargs \subseteq SearchArgNames)
    THEN Execution(Raised("execute() got an unexpected keyword argument"), sources, FALSE)
    ELSE IF store.search.status = "raised"
    THEN Execution(Raised(store.search.value), sources, FALSE)
    ELSE LET results == store.search.value
         IN  IF is_empty(results)
             THEN Execution(Returned(<<"No relevant content found">>
                                     \o FilterInfo(Arg(kwargs, "course_name"), Arg(kwargs, "lesson_number"))
                                     \o <<".">>),
                            sources, FALSE)
             ELSE IF results.error # NoError
             THEN Execution(Returned(<<results.error>>), sources, FALSE)
             ELSE Execution(Returned(_format_results(results).text), _format_results(results).sources, TRUE)

\* CourseSearchTool.execute(**kwargs) on a tool whose last_sources is 'sources'
CourseSearchTool_execute(kwargs, store, sources) ==
    IF "query" \notin DOMAIN kwargs
    THEN Execution(Raised("execute() missing 1 required positional argument: 'query'"), sources, FALSE)
    ELSE IF ~(DOMAIN kwargs \subseteq SearchArgNames)
    THEN Execution(Raised("execute() got an unexpected keyword argument"), sources, FALSE)
    ELSE IF store.search.status = "raised"
    THEN Execution(Raised(store.search.value), sources, FALSE)
    ELSE LET results == store.search.value
         IN  IF results.error # NoError
             THEN Execution(Returned(<<results.error>>), sources, FALSE)
             ELSE IF is_empty(results)
             THEN Execution(Returned(<<"No relevant content found">>
                                     \o FilterInfo(Arg(kwargs, "course_name"), Arg(kwargs, "lesson_number"))
                                     \o <<".">>),
                            sources, FALSE)
             ELSE Execution(Returned(_format_results(results).text), _format_results(results).sources, TRUE)

\* d.get(key, default)
Get(d, key, default) == IF key \in DOMAIN d THEN d[key] ELSE default

\* one line of the lessons section of the outline
LessonLine(lesson) ==
    <<IF "lesson_number" \in DOMAIN lesson THEN IntStr(lesson.lesson_number) ELSE "?",
      ". ", Get(lesson, "lesson_title", "Unknown Lesson")>>
    \o (IF Get(lesson, "lesson_link", NoLink) # NoLink
        THEN <<" - [Link](", lesson.lesson_link, ")">>
        ELSE <<>>)

\* CourseOutlineTool._format_course_outline: the text returned and the sources assigned
_format_course_outline(metadata) ==
    LET course_title == Get(metadata, "title", "Unknown Course")
        course_link == Get(metadata, "course_link", NoLink)
        instructor == Get(metadata, "instructor", "Unknown Instructor")
        lessons == Get(metadata, "lessons", <<>>)
        outline_parts ==
            << <<"**", course_title, "**">> >>
            \o (IF instructor # "" THEN << <<"Instructor: ", instructor>> >> ELSE <<>>)
            \o (IF course_link # NoLink THEN << <<"Course Link: ", course_link>> >> ELSE <<>>)
            \o (IF lessons # <<>>
                THEN << <<"\n**Lessons (", IntStr(Len(lessons)), " total):**">> >>
                     \o [i \in 1..Len(lessons) |-> LessonLine(lessons[i])]
                ELSE << <<"\nNo lessons found for this course.">> >>)
    IN  [text |-> JoinWith(outline_parts, "\n"),
         sources |-> <<Source(<<course_title>>, course_link)>>]

\* CourseOutlineTool.execute(**kwargs) on a tool whose last_sources is 'sources'
CourseOutlineTool_execute(kwargs, store, sources) ==
    IF "course_name" \notin DOMAIN kwargs
    THEN Execution(Raised("execute() missing 1 required positional argument: 'course_name'"), sources, FALSE)
    ELSE IF DOMAIN kwargs # {"course_name"}
    THEN Execution(Raised("execute() got an unexpected keyword argument"), sources, FALSE)
    ELSE IF store.resolved = NoTitle
    THEN Execution(Returned(<<"No course found matching '">> \o Format(kwargs.course_name) \o <<"'">>),
                   sources, FALSE)
    ELSE IF store.metadata = NoMetadata
    THEN Execution(Returned(<<"Could not retrieve metadata for course '", store.resolved, "'">>),
                   sources, FALSE)
    ELSE Execution(Returned(_format_course_outline(store.metadata).text),
                   _format_course_outline(store.metadata).sources, TRUE)

(***************************************************************************)
(* ToolManager                                                             *)
(***************************************************************************)
\* the tool objects: the name of get_tool_definition() ("" when it has none)
NoName == ""
SearchTool == [name |-> SearchName]
OutlineTool == [name |-> OutlineName]
NamelessTool == [name |-> NoName]

\* the last_sources of two tools just constructed
NoSources == [n \in {SearchName, OutlineName} |-> <<>>]

\* keys of a ToolManager.tools
RegisteredTools(registry) == {registry[i] : i \in 1..Len(registry)}

\* register_tool adding an entry for a name that is already registered
register_tool_appending(registry, tool) ==
    IF tool.name = NoName
    THEN [outcome |-> Raised("Tool must have a 'name' in its definition"), tools |-> registry]
    ELSE [outcome |-> Returned(<<>>), tools |-> Append(registry, tool.name)]

\* ToolManager.register_tool: how it ends and the registry after it
register_tool(registry, tool) ==
    IF tool.name = NoName
    THEN [outcome |-> Raised("Tool must have a 'name' in its definition"), tools |-> registry]
    ELSE [outcome |-> Returned(<<>>),
          tools |-> IF tool.name \in RegisteredTools(registry) THEN registry
                    ELSE Append(registry, tool.name)]

\* ToolManager.get_tool_definitions: one schema per entry, in registry order
get_tool_definitions(registry) == registry

\* execute_tool clearing every tool's last_sources when the name is not registered
execute_tool_clearing(registry, sources, tool_name, kwargs, store) ==
    IF tool_name \notin RegisteredTools(registry)
    THEN Execution(Returned(<<"Tool '", tool_name, "' not found">>), NoSources, FALSE)
    ELSE LET ex == IF tool_name = SearchName
                   THEN CourseSearchTool_execute(kwargs, store, sources[tool_name])
                   ELSE CourseOutlineTool_execute(kwargs, store, sources[tool_name])
         IN  Execution(ex.outcome, [sources EXCEPT ![tool_name] = ex.last_sources], ex.produced)

\* ToolManager.execute_tool(tool_name, **kwargs): how it ends and every tool's last_sources after it
execute_tool(registry, sources, tool_name, kwargs, store) ==
    IF tool_name \notin RegisteredTools(registry)
    THEN Execution(Returned(<<"Tool '", tool_name, "' not found">>), sources, FALSE)
    ELSE LET ex == IF tool_name = SearchName
                   THEN CourseSearchTool_execute(kwargs, store, sources[tool_name])
                   ELSE CourseOutlineTool_execute(kwargs, store, sources[tool_name])
         IN  Execution(ex.outcome, [sources EXCEPT ![tool_name] = ex.last_sources], ex.produced)

\* ToolManager.get_last_sources
get_last_sources(registry, sources) ==
    LET with_sources == {i \in 1..Len(registry) : sources[registry[i]] # <<>>}
    IN  IF with_sources = {} THEN <<>>
        ELSE sources[registry[CHOOSE i \in with_sources : \A j \in with_sources : i <= j]]

\* reset_sources clearing only the list that get_last_sources returns
reset_sources_first_only(registry, sources) ==
    LET with_sources == {i \in 1..Len(registry) : sources[registry[i]] # <<>>}
        first == CHOOSE i \in with_sources : \A j \in with_sources : i <= j
    IN  [n \in DOMAIN sources |-> IF with_sources # {} /\ n = registry[first] THEN <<>> ELSE sources[n]]

\* ToolManager.reset_sources: every tool's last_sources after it
reset_sources(registry, sources) ==
    [n \in DOMAIN sources |-> IF n \in RegisteredTools(registry) THEN <<>> ELSE sources[n]]

\* the latest ToolManager call: what was called, with what, how it ended, and the registry
\* and the sources before it
TmLog(op, tool_name, kwargs, store, outcome, tools_before, sources_before) ==
    [op |-> op, tool_name |-> tool_name, kwargs |-> kwargs, store |-> store, outcome |-> outcome,
     tools_before |-> tools_before, sources_before |-> sources_before]

NoStore == Store(NoResult, NoTitle, NoMetadata)
NoCall == TmLog("none", NoName, EmptyParams, NoStore, NoResult, <<>>, NoSources)
NoLatest == [tool |-> NoName, sources |-> <<>>]

\* the tool that assigned last_sources most recently, after an execution
LatestAfter(latest, tool_name, ex) ==
    IF ex.produced THEN [tool |-> tool_name, sources |-> ex.last_sources[tool_name]] ELSE latest

(***************************************************************************)
(* AIGenerator                                                             *)
(***************************************************************************)
\* a prompt builder that leaves the conversation history out
HistorySection_dropped(conversation_history) == <<>>

\* _build_dynamic_system_prompt: "if conversation_history: prompt += ..."
HistorySection(conversation_history) ==
    IF conversation_history # NoHistory
    THEN <<"\n\nPrevious conversation:\n", conversation_history>>
    ELSE <<>>

OrDefault(gathered_info, default) == IF gathered_info # <<>> THEN gathered_info ELSE <<default>>

_build_dynamic_system_prompt(conversation_history, round_type, remaining_rounds, gathered_info) ==
    IF round_type = "first_round"
    THEN [base |-> "BASE_SYSTEM_PROMPT", addition |-> "FIRST_ROUND_PROMPT_ADDITION",
          remaining_rounds |-> remaining_rounds,
          history |-> HistorySection(conversation_history)]
    ELSE IF round_type = "follow_up_round"
    THEN [base |-> "BASE_SYSTEM_PROMPT", addition |-> "FOLLOW_UP_PROMPT_ADDITION",
          remaining_rounds |-> remaining_rounds,
          gathered_info |-> OrDefault(gathered_info, "Various search results"),
          history |-> HistorySection(conversation_history)]
    ELSE IF round_type = "final_round"
    THEN [base |-> "BASE_SYSTEM_PROMPT", addition |-> "FINAL_ROUND_PROMPT_ADDITION",
          gathered_info |-> OrDefault(gathered_info, "Previous search results"),
          history |-> HistorySection(conversation_history)]
    ELSE [base |-> "BASE_SYSTEM_PROMPT", addition |-> "NO_MORE_ROUNDS_PROMPT_ADDITION",
          gathered_info |-> OrDefault(gathered_info, "All previous search results"),
          history |-> HistorySection(conversation_history)]

Message(role, content) == [role |-> role, content |-> content]

\* response.content[0].text: the text, or the exception the expression raises
FirstText(response) ==
    IF response.content = <<>> THEN Raised("list index out of range")
    ELSE IF response.content[1].type # "text" THEN Raised("'ToolUseBlock' object has no attribute 'text'")
    ELSE Returned(response.content[1].text)

RECURSIVE SkipToToolUse(_)
\* the for loop of _execute_tools_with_loop_detection passes over blocks that are not tool_use
SkipToToolUse(blocks) ==
    IF blocks = <<>> THEN <<>>
    ELSE IF Head(blocks).type = "tool_use" THEN blocks
    ELSE SkipToToolUse(Tail(blocks))

RoundErrorMessage(e) == <<"I encountered an error while processing your request: ", e>>
SynthesisErrorMessage(e) == <<"I gathered information but encountered an error during synthesis: ", e>>
ToolErrorMessage(e) == <<"Tool execution error: ", e, ". Please work with available information.">>
LoopMessage == <<"Loop detected: Similar search already performed. Please synthesize available information.">>

\* a tool_result that does not echo the id of its request
ToolResult_without_id(id, content) == [type |-> "tool_result", tool_use_id |-> "", content |-> content]

ToolResult(id, content) == [type |-> "tool_result", tool_use_id |-> id, content |-> content]

\* the while condition of _handle_sequential_tool_rounds, and the synthesis call after the loop
LoopHead(r, mx) == IF should_continue_rounds(r, mx) THEN "round" ELSE "synth"

\* "if not tools and not tool_manager"
UseSimpleResponse_both_missing(tools, tool_manager) == tools = NoTools /\ ~tool_manager

\* generate_response: "if not tools or not tool_manager"
UseSimpleResponse(tools, tool_manager) == tools = NoTools \/ ~tool_manager

\* _generate_simple_response with the call wrapped in the try/except of the round loop
SimpleResult_caught(outcome) ==
    IF outcome.status = "raised" THEN Returned(RoundErrorMessage(outcome.value))
    ELSE FirstText(outcome.value)

\* _generate_simple_response: how the call's outcome ends the query
SimpleResult(outcome) ==
    IF outcome.status = "raised" THEN Raised(outcome.value)
    ELSE FirstText(outcome.value)

\* the round loop running the tool branch whatever the stop reason
WantsTools_always(response) == TRUE

\* _handle_sequential_tool_rounds: 'if response.stop_reason == "tool_use"'
WantsTools(response) == response.stop_reason = "tool_use"

\* the except branch leaving the loop with "break" instead of returning
OnRoundError_break(e) == [pc |-> "synth", result |-> NoResult]

\* _handle_sequential_tool_rounds: the except branch of the round loop
OnRoundError(e) == [pc |-> "idle", result |-> Returned(RoundErrorMessage(e))]

\* _handle_sequential_tool_rounds: the else branch "return response.content[0].text",
\* inside the try of the round loop
OnTextResponse(response) ==
    IF FirstText(response).status = "returned"
    THEN [pc |-> "idle", result |-> FirstText(response)]
    ELSE OnRoundError(FirstText(response).value)

\* _make_final_synthesis_call without its try/except
SynthesisResult_uncaught(outcome) ==
    IF outcome.status = "raised" THEN Raised(outcome.value)
    ELSE FirstText(outcome.value)

\* _make_final_synthesis_call: how the call's outcome ends the query
SynthesisResult(outcome) ==
    IF outcome.status = "raised"
    THEN Returned(SynthesisErrorMessage(outcome.value))
    ELSE IF FirstText(outcome.value).status = "returned"
    THEN FirstText(outcome.value)
    ELSE Returned(SynthesisErrorMessage(FirstText(outcome.value).value))

\* the except branch of the tool execution adding an empty content
ToolResultContent_no_description(outcome) ==
    IF outcome.status = "returned" THEN outcome.value
    ELSE <<>>

\* _execute_tools_with_loop_detection: the content of the tool_result for an execution
ToolResultContent(outcome) ==
    IF outcome.status = "returned" THEN outcome.value
    ELSE ToolErrorMessage(outcome.value)

\* max_tool_rounds of AIGenerator.__init__ when the caller gives none
DefaultMaxToolRounds == 2

tm_vars == <<tm_tools, last_sources, latest_sources, tm_log>>
generator_vars == <<max_rounds, tool_call_history, current_round, gathered_info_summary,
                    pc, args, messages, pending, tool_results,
                    api_calls, api_responses, tool_execs, result>>

\* a direct call of a processor method: its arguments, the state it read, what it returned
ProcLog(op, tool_name, params1, params2, round, mx, history, value) ==
    [op |-> op, tool_name |-> tool_name, params1 |-> params1, params2 |-> params2,
     round |-> round, max_rounds |-> mx, history |-> history, value |-> value]

NoProcCall == ProcLog("none", "", EmptyParams, EmptyParams, 0, 0, <<>>, FALSE)

\* the locals of a generate_response call put aside at a thread switch, with the calls it has
\* made so far; 'interleaved' tells whether a call in flight was ever put aside
QueryLocals(p, a, msgs, blocks, results, calls, responses, execs, res, interleaved) ==
    [pc |-> p, args |-> a, messages |-> msgs, pending |-> blocks, tool_results |-> results,
     api_calls |-> calls, api_responses |-> responses, tool_execs |-> execs, result |-> res,
     interleaved |-> interleaved]

\* a thread that has not called generate_response
NotStarted ==
    QueryLocals("idle", [query |-> "", conversation_history |-> NoHistory, tools |-> NoTools, tool_manager |-> FALSE],
                <<>>, <<>>, <<>>, <<>>, <<>>, <<>>, NoResult, FALSE)

\* a generator that has served no query yet
InitGenerator ==
    /\ tool_call_history = <<>>
    /\ current_round = 0
    /\ gathered_info_summary = <<>>
    /\ pc = "idle"
    /\ args = [query |-> "", conversation_history |-> NoHistory, tools |-> NoTools, tool_manager |-> FALSE]
    /\ messages = <<>>
    /\ pending = <<>>
    /\ tool_results = <<>>
    /\ api_calls = <<>>
    /\ api_responses = <<>>
    /\ tool_execs = <<>>
    /\ result = NoResult
    /\ proc_log = NoProcCall
    /\ other_query = NotStarted

\* a generator with any max_tool_rounds, and a tool manager on which the search tool and then
\* the outline tool were registered at startup
Init ==
    /\ max_rounds \in 0..MaxRoundsBound
    /\ InitGenerator
    /\ tm_tools = <<SearchName, OutlineName>>
    /\ last_sources = NoSources
    /\ latest_sources = NoLatest
    /\ tm_log = NoCall

\* a ToolManager just constructed, next to a generator that serves no query
ToolInit ==
    /\ max_rounds = DefaultMaxToolRounds
    /\ InitGenerator
    /\ tm_tools = <<>>
    /\ last_sources = NoSources
    /\ latest_sources = NoLatest
    /\ tm_log = NoCall

\* reset_state leaving the call history in place
reset_state_keeping_history ==
    /\ UNCHANGED tool_call_history
    /\ current_round' = 0
    /\ gathered_info_summary' = <<>>

\* SequentialToolProcessor.reset_state
reset_state ==
    /\ tool_call_history' = <<>>
    /\ current_round' = 0
    /\ gathered_info_summary' = <<>>

\* generate_response up to its first reasoning-model call
GenerateResponse(query, conversation_history, tools, tool_manager) ==
    /\ pc = "idle"
    /\ reset_state
    /\ args' = [query |-> query, conversation_history |-> conversation_history,
                tools |-> tools, tool_manager |-> tool_manager]
    /\ api_calls' = <<>>
    /\ api_responses' = <<>>
    /\ tool_execs' = <<>>
    /\ result' = NoResult
    /\ pending' = <<>>
    /\ tool_results' = <<>>
    /\ IF UseSimpleResponse(tools, tool_manager)
       THEN /\ pc' = "simple"
            /\ messages' = <<>>
       ELSE /\ messages' = <<Message("user", query)>>
            /\ pc' = LoopHead(0, max_rounds)
    /\ tm_log' = NoCall
    /\ UNCHANGED <<max_rounds, tm_tools, last_sources, latest_sources, proc_log, other_query>>

\* _generate_simple_response
SimpleCall(outcome) ==
    /\ pc = "simple"
    /\ LET system_content == _build_dynamic_system_prompt(args.conversation_history, "first_round", 0, <<>>)
           api_params == [messages |-> <<Message("user", args.query)>>, system |-> system_content]
       IN  /\ api_calls' = Append(api_calls, api_params)
           /\ api_responses' = Append(api_responses, outcome)
           /\ result' = SimpleResult(outcome)
    /\ pc' = "idle"
    /\ UNCHANGED <<max_rounds, tool_call_history, current_round, gathered_info_summary,
                   args, messages, pending, tool_results, tool_execs>>
    /\ UNCHANGED <<tm_vars, proc_log, other_query>>

\* a round loop that goes on to the next round after an empty batch
AfterBatch_without_break(msgs, results, round) ==
    IF results # <<>>
    THEN /\ messages' = Append(msgs, Message("user", results))
         /\ gathered_info_summary' \in update_gathered_info(results)
         /\ pc' = LoopHead(round, max_rounds)
    ELSE /\ messages' = msgs
         /\ gathered_info_summary' = gathered_info_summary
         /\ pc' = LoopHead(round, max_rounds)

\* a round loop that appends one user message per tool result
AfterBatch_ungrouped(msgs, results, round) ==
    IF results # <<>>
    THEN /\ messages' = msgs \o [i \in 1..Len(results) |-> Message("user", <<results[i]>>)]
         /\ gathered_info_summary' \in update_gathered_info(results)
         /\ pc' = LoopHead(round, max_rounds)
    ELSE /\ messages' = msgs
         /\ gathered_info_summary' = gathered_info_summary
         /\ pc' = "synth"

\* a round loop that goes to the synthesis as soon as the summary names a category
AfterBatch_gated_by_summary(msgs, results, round) ==
    IF results # <<>>
    THEN /\ messages' = Append(msgs, Message("user", results))
         /\ gathered_info_summary' \in update_gathered_info(results)
         /\ pc' = IF gathered_info_summary' # <<>> THEN "synth" ELSE LoopHead(round, max_rounds)
    ELSE /\ messages' = msgs
         /\ gathered_info_summary' = gathered_info_summary
         /\ pc' = "synth"

\* _handle_sequential_tool_rounds after _execute_tools_with_loop_detection returned 'results'
\* (<<>> stands for None), with 'msgs' the conversation so far and 'round' the round counter
AfterBatch(msgs, results, round) ==
    IF results # <<>>
    THEN /\ messages' = Append(msgs, Message("user", results))
         /\ gathered_info_summary' \in update_gathered_info(results)
         /\ pc' = LoopHead(round, max_rounds)
    ELSE /\ messages' = msgs
         /\ gathered_info_summary' = gathered_info_summary
         /\ pc' = "synth"

\* one iteration of the while loop of _handle_sequential_tool_rounds, up to the first tool execution
RoundCall(outcome) ==
    /\ pc = "round"
    /\ current_round' = current_round + 1
    /\ LET round_type == get_round_type(current_round', max_rounds)
           remaining_rounds == max_rounds - current_round'
           system_content == _build_dynamic_system_prompt(args.conversation_history, round_type,
                                                          remaining_rounds, gathered_info_summary)
           api_params == [messages |-> messages, system |-> system_content,
                          tools |-> args.tools, tool_choice |-> [type |-> "auto"]]
       IN  /\ api_calls' = Append(api_calls, api_params)
           /\ api_responses' = Append(api_responses, outcome)
           /\ IF outcome.status = "raised"
              THEN /\ result' = OnRoundError(outcome.value).result
                   /\ pc' = OnRoundError(outcome.value).pc
                   /\ UNCHANGED <<messages, pending, gathered_info_summary>>
              ELSE LET response == outcome.value
                       appended == Append(messages, Message("assistant", response.content))
                   IN  IF WantsTools(response)
                       THEN /\ result' = result
                            /\ pending' = SkipToToolUse(response.content)
                            /\ IF pending' # <<>>
                               THEN /\ pc' = "exec"
                                    /\ messages' = appended
                                    /\ UNCHANGED gathered_info_summary
                               ELSE AfterBatch(appended, <<>>, current_round + 1)
                       ELSE /\ messages' = appended
                            /\ result' = OnTextResponse(response).result
                            /\ pc' = OnTextResponse(response).pc
                            /\ UNCHANGED <<pending, gathered_info_summary>>
    /\ UNCHANGED <<max_rounds, tool_call_history, args, tool_results, tool_execs>>
    /\ UNCHANGED <<tm_vars, proc_log, other_query>>

\* the for loop returning the batch after its first entry
Continue_first_only(results, stop) ==
    /\ pending' = <<>>
    /\ tool_results' = <<>>
    /\ AfterBatch(messages, results, current_round)

\* the for loop going on to the next block after a loop notice
Continue_past_loop(results, stop) ==
    LET rest == SkipToToolUse(Tail(pending))
    IN  IF rest # <<>>
        THEN /\ pending' = rest
             /\ tool_results' = results
             /\ UNCHANGED <<pc, messages, gathered_info_summary>>
        ELSE /\ pending' = <<>>
             /\ tool_results' = <<>>
             /\ AfterBatch(messages, results, current_round)

\* the rest of _execute_tools_with_loop_detection once 'results' holds the entry of the block
\* at the head of 'pending': the loop goes on, or the batch is returned to the round loop
Continue(results, stop) ==
    LET rest == SkipToToolUse(Tail(pending))
    IN  IF rest # <<>> /\ ~stop
        THEN /\ pending' = rest
             /\ tool_results' = results
             /\ UNCHANGED <<pc, messages, gathered_info_summary>>
        ELSE /\ pending' = <<>>
             /\ tool_results' = <<>>
             /\ AfterBatch(messages, results, current_round)

\* a tool execution recorded once the tool has returned, and not when it raised
ExecTool_recording_successes(store) ==
    /\ pc = "exec"
    /\ LET content_block == Head(pending)
           ex == execute_tool(tm_tools, last_sources, content_block.name, content_block.input, store)
       IN  /\ ~detect_loop(tool_call_history, content_block.name, content_block.input)
           /\ tool_call_history' = IF ex.outcome.status = "returned"
                                    THEN Append(tool_call_history,
                                             ToolCallRecord(content_block.name, content_block.input, current_round))
                                    ELSE tool_call_history
           /\ last_sources' = ex.last_sources
           /\ latest_sources' = LatestAfter(latest_sources, content_block.name, ex)
           /\ tm_log' = TmLog("execute_tool", content_block.name, content_block.input, store,
                              ex.outcome, tm_tools, last_sources)
           /\ tool_execs' = Append(tool_execs,
                  [name |-> content_block.name, kwargs |-> content_block.input,
                   id |-> content_block.id, round |-> current_round, outcome |-> ex.outcome,
                   sources |-> IF ex.produced THEN ex.last_sources[content_block.name] ELSE <<>>])
           /\ Continue(Append(tool_results, ToolResult(content_block.id, ToolResultContent(ex.outcome))), FALSE)
    /\ UNCHANGED <<max_rounds, current_round, args, api_calls, api_responses, result, tm_tools, proc_log, other_query>>

\* _execute_tools_with_loop_detection: a tool_use block that passes the loop check, executed
\* while the vector store answers as 'store'
ExecTool(store) ==
    /\ pc = "exec"
    /\ LET content_block == Head(pending)
           ex == execute_tool(tm_tools, last_sources, content_block.name, content_block.input, store)
       IN  /\ ~detect_loop(tool_call_history, content_block.name, content_block.input)
           /\ tool_call_history' = Append(tool_call_history,
                  ToolCallRecord(content_block.name, content_block.input, current_round))
           /\ last_sources' = ex.last_sources
           /\ latest_sources' = LatestAfter(latest_sources, content_block.name, ex)
           /\ tm_log' = TmLog("execute_tool", content_block.name, content_block.input, store,
                              ex.outcome, tm_tools, last_sources)
           /\ tool_execs' = Append(tool_execs,
                  [name |-> content_block.name, kwargs |-> content_block.input,
                   id |-> content_block.id, round |-> current_round, outcome |-> ex.outcome,
                   sources |-> IF ex.produced THEN ex.last_sources[content_block.name] ELSE <<>>])
           /\ Continue(Append(tool_results, ToolResult(content_block.id, ToolResultContent(ex.outcome))), FALSE)
    /\ UNCHANGED <<max_rounds, current_round, args, api_calls, api_responses, result, tm_tools, proc_log, other_query>>

\* _execute_tools_with_loop_detection: a tool_use block that detect_loop flags
LoopDetected ==
    /\ pc = "exec"
    /\ LET content_block == Head(pending)
       IN  /\ detect_loop(tool_call_history, content_block.name, content_block.input)
           /\ Continue(Append(tool_results, ToolResult(content_block.id, LoopMessage)), TRUE)
    /\ UNCHANGED <<max_rounds, tool_call_history, current_round, args,
                   api_calls, api_responses, tool_execs, result>>
    /\ UNCHANGED <<tm_vars, proc_log, other_query>>

\* _make_final_synthesis_call
SynthesisCall(outcome) ==
    /\ pc = "synth"
    /\ LET system_content == _build_dynamic_system_prompt(args.conversation_history, "final_round", 0,
                                                          gathered_info_summary)
           final_params == [messages |-> messages, system |-> system_content]
       IN  /\ api_calls' = Append(api_calls, final_params)
           /\ api_responses' = Append(api_responses, outcome)
           /\ result' = SynthesisResult(outcome)
    /\ pc' = "idle"
    /\ UNCHANGED <<max_rounds, tool_call_history, current_round, gathered_info_summary,
                   args, messages, pending, tool_results, tool_execs>>
    /\ UNCHANGED <<tm_vars, proc_log, other_query>>

\* what a reasoning-model call can produce
ToolCallOutcomes == {Returned(r) : r \in ToolResponses} \cup {Raised(e) : e \in ApiErrors}
PlainCallOutcomes == {Returned(r) : r \in PlainResponses} \cup {Raised(e) : e \in ApiErrors}

\* what the vector store can answer while a tool requested by the model runs
StoreBehaviours ==
    {Store(s, "Python Course", CourseMetadata) :
        s \in {Returned(ErrorResults), Returned(EmptyResults), Returned(OneResult)}
              \cup {Raised(e) : e \in ToolErrors}}
    \cup {Store(Returned(OneResult), NoTitle, NoMetadata)}

Next ==
    \/ \E q \in Queries, h \in Histories, t \in {NoTools, ToolSchemas}, tm \in BOOLEAN :
          GenerateResponse(q, h, t, tm)
    \/ \E o \in PlainCallOutcomes : SimpleCall(o)
    \/ \E o \in ToolCallOutcomes : RoundCall(o)
    \/ \E s \in StoreBehaviours : ExecTool(s)
    \/ LoopDetected
    \/ \E o \in PlainCallOutcomes : SynthesisCall(o)

Spec == Init /\ [][Next]_vars

\* a query in flight keeps running: every call of the code is synchronous and returns or raises
FairSpec == Spec /\ WF_vars(\E o \in PlainCallOutcomes : SimpleCall(o))
                 /\ WF_vars(\E o \in ToolCallOutcomes : RoundCall(o))
                 /\ WF_vars(\E s \in StoreBehaviours : ExecTool(s))
                 /\ WF_vars(LoopDetected)
                 /\ WF_vars(\E o \in PlainCallOutcomes : SynthesisCall(o))

(***************************************************************************)
(* Direct calls of the ToolManager                                         *)
(***************************************************************************)
\* ToolManager.register_tool(tool)
RegisterTool(tool) ==
    /\ pc = "idle"
    /\ LET registered == register_tool(tm_tools, tool)
       IN  /\ tm_tools' = registered.tools
           /\ tm_log' = TmLog("register_tool", tool.name, EmptyParams, NoStore, registered.outcome,
                              tm_tools, last_sources)
    /\ UNCHANGED <<last_sources, latest_sources>>
    /\ UNCHANGED <<generator_vars, proc_log, other_query>>

\* ToolManager.execute_tool(tool_name, **kwargs) while the vector store answers as 'store'
ExecuteTool(tool_name, kwargs, store) ==
    /\ pc = "idle"
    /\ LET ex == execute_tool(tm_tools, last_sources, tool_name, kwargs, store)
       IN  /\ last_sources' = ex.last_sources
           /\ latest_sources' = LatestAfter(latest_sources, tool_name, ex)
           /\ tm_log' = TmLog("execute_tool", tool_name, kwargs, store, ex.outcome, tm_tools, last_sources)
    /\ UNCHANGED tm_tools
    /\ UNCHANGED <<generator_vars, proc_log, other_query>>

\* ToolManager.get_last_sources()
GetLastSources ==
    /\ pc = "idle"
    /\ tm_log' = TmLog("get_last_sources", NoName, EmptyParams, NoStore,
                       Returned(get_last_sources(tm_tools, last_sources)), tm_tools, last_sources)
    /\ UNCHANGED <<tm_tools, last_sources, latest_sources>>
    /\ UNCHANGED <<generator_vars, proc_log, other_query>>

\* ToolManager.reset_sources()
ResetSources ==
    /\ pc = "idle"
    /\ last_sources' = reset_sources(tm_tools, last_sources)
    /\ latest_sources' = NoLatest
    /\ tm_log' = TmLog("reset_sources", NoName, EmptyParams, NoStore, Returned(<<>>), tm_tools, last_sources)
    /\ UNCHANGED tm_tools
    /\ UNCHANGED <<generator_vars, proc_log, other_query>>

\* keyword arguments of the direct calls
DirectKwargs ==
    { ParamsPython,
      ParamsCourse,
      [query |-> StrV(<<"python", "basics">>), course_name |-> StrV(<<"Python", "Course">>)],
      [query |-> StrV(<<"python", "basics">>), course_name |-> StrV(<<"Python", "Course">>),
       lesson_number |-> IntV(0)],
      [query |-> StrV(<<"python", "basics">>), lesson_number |-> IntV(5)] }

\* what the vector store can answer during a direct call
DirectStores ==
    StoreBehaviours
    \cup {Store(Returned(TwoResults), "Python Course", NoMetadata),
          Store(Returned(UntitledResult), "Python Course", BareMetadata)}

ToolNext ==
    \/ \E tool \in {SearchTool, OutlineTool, NamelessTool} : RegisterTool(tool)
    \/ \E n \in {SearchName, OutlineName, UnknownName}, k \in DirectKwargs, s \in DirectStores :
          ExecuteTool(n, k, s)
    \/ GetLastSources
    \/ ResetSources

ToolSpec == ToolInit /\ [][ToolNext]_vars

(***************************************************************************)
(* Direct calls of the SequentialToolProcessor                             *)
(***************************************************************************)
ParamsFive == [query |-> StrV(<<"python", "basics", "for", "new", "learners">>)]
ParamsFour == [query |-> StrV(<<"python", "basics", "for", "new">>)]
\* the same query with a course filter, and with a lesson filter
ParamsFourInCourse == [query |-> StrV(<<"python", "basics", "for", "new">>),
                       course_name |-> StrV(<<"Python", "Course">>)]
ParamsFourLesson1 == [query |-> StrV(<<"python", "basics", "for", "new">>), lesson_number |-> IntV(1)]
ParamsFourLesson2 == [query |-> StrV(<<"python", "basics", "for", "new">>), lesson_number |-> IntV(2)]

\* the calls the harness records, the calls it probes detect_loop with, and the parameter
\* mappings it compares
RecordedCalls == {<<SearchName, ParamsFour>>, <<SearchName, ParamsFive>>, <<OutlineName, ParamsFour>>,
                  <<SearchName, ParamsFourInCourse>>}
ProbedCalls == {<<n, p>> : n \in {SearchName, OutlineName},
                           p \in {ParamsPython, ParamsFour, ParamsFourInCourse, ParamsFourLesson1}}
ComparedParams == {EmptyParams, ParamsPython, ParamsNode, ParamsCourse, ParamsFour, ParamsFive,
                   ParamsFourInCourse, ParamsFourLesson1, ParamsFourLesson2}

unchanged_by_processor_calls ==
    <<max_rounds, pc, args, messages, pending, tool_results, api_calls, api_responses, tool_execs,
      result, tm_tools, last_sources, latest_sources, tm_log, other_query>>

\* SequentialToolProcessor(max_rounds) just constructed, next to an empty ToolManager
ProcessorInit ==
    /\ max_rounds \in 0..MaxRoundsBound
    /\ InitGenerator
    /\ tm_tools = <<>>
    /\ last_sources = NoSources
    /\ latest_sources = NoLatest
    /\ tm_log = NoCall

\* processor.reset_state()
ResetState ==
    /\ pc = "idle"
    /\ reset_state
    /\ proc_log' = ProcLog("reset_state", "", EmptyParams, EmptyParams, current_round, max_rounds,
                           tool_call_history, FALSE)
    /\ UNCHANGED unchanged_by_processor_calls

\* processor.current_round = r, on a processor that holds no record (the round counter and
\* the call history are driven apart, as test_round_management and test_loop_detection_basic do)
SetCurrentRound(r) ==
    /\ pc = "idle"
    /\ tool_call_history = <<>>
    /\ current_round' = r
    /\ proc_log' = ProcLog("set_current_round", "", EmptyParams, EmptyParams, r, max_rounds, <<>>, FALSE)
    /\ UNCHANGED <<tool_call_history, gathered_info_summary>>
    /\ UNCHANGED unchanged_by_processor_calls

\* processor.should_continue_rounds()
ShouldContinueRounds ==
    /\ pc = "idle"
    /\ proc_log' = ProcLog("should_continue_rounds", "", EmptyParams, EmptyParams, current_round, max_rounds,
                           <<>>, should_continue_rounds(current_round, max_rounds))
    /\ UNCHANGED <<tool_call_history, current_round, gathered_info_summary>>
    /\ UNCHANGED unchanged_by_processor_calls

\* processor.get_round_type()
GetRoundType ==
    /\ pc = "idle"
    /\ proc_log' = ProcLog("get_round_type", "", EmptyParams, EmptyParams, current_round, max_rounds,
                           <<>>, get_round_type(current_round, max_rounds))
    /\ UNCHANGED <<tool_call_history, current_round, gathered_info_summary>>
    /\ UNCHANGED unchanged_by_processor_calls

\* processor.add_tool_call_record(tool_name, parameters), at round 0
AddToolCallRecord(tool_name, parameters) ==
    /\ pc = "idle"
    /\ current_round = 0
    /\ Len(tool_call_history) < MaxHistory
    /\ tool_call_history' = Append(tool_call_history, ToolCallRecord(tool_name, parameters, current_round))
    /\ proc_log' = ProcLog("add_tool_call_record", tool_name, parameters, EmptyParams, current_round,
                           max_rounds, <<>>, FALSE)
    /\ UNCHANGED <<current_round, gathered_info_summary>>
    /\ UNCHANGED unchanged_by_processor_calls

\* processor.detect_loop(tool_name, parameters)
DetectLoop(tool_name, parameters) ==
    /\ pc = "idle"
    /\ proc_log' = ProcLog("detect_loop", tool_name, parameters, EmptyParams, current_round, max_rounds,
                           tool_call_history, detect_loop(tool_call_history, tool_name, parameters))
    /\ UNCHANGED <<tool_call_history, current_round, gathered_info_summary>>
    /\ UNCHANGED unchanged_by_processor_calls

\* processor._calculate_parameter_similarity(params1, params2), on a processor that holds no
\* record (the method reads its two arguments only)
CalculateParameterSimilarity(params1, params2) ==
    /\ pc = "idle"
    /\ tool_call_history = <<>>
    /\ proc_log' = ProcLog("_calculate_parameter_similarity", "", params1, params2, current_round,
                           max_rounds, <<>>, _calculate_parameter_similarity(params1, params2))
    /\ UNCHANGED <<tool_call_history, current_round, gathered_info_summary>>
    /\ UNCHANGED unchanged_by_processor_calls

ProcessorNext ==
    \/ ResetState
    \/ \E r \in 0..(MaxRoundsBound + 1) : SetCurrentRound(r)
    \/ ShouldContinueRounds
    \/ GetRoundType
    \/ \E c \in RecordedCalls : AddToolCallRecord(c[1], c[2])
    \/ \E c \in ProbedCalls : DetectLoop(c[1], c[2])
    \/ \E p1 \in ComparedParams, p2 \in ComparedParams : CalculateParameterSimilarity(p1, p2)

ProcessorSpec == ProcessorInit /\ [][ProcessorNext]_vars

(***************************************************************************)
(* RAGSystem.query of fixes/improved_error_handling.py                     *)
(***************************************************************************)
NoApiKey == ""    \* config.ANTHROPIC_API_KEY unset or ""
ApiKeys == {NoApiKey, "sk-ant-test"}

\* f"""Answer this question about course materials: {query}"""
Prompt(query) ==
    CASE query = "What is Python?" -> "Answer this question about course materials: What is Python?"

NotConfiguredMessage ==
    <<"I'm sorry, but the system is not properly configured with an API key. Please contact your administrator.">>

\* the latest call of query() has returned
QueryOver == tm_log.op \in {"query", "query_unconfigured", "query_failed"}

\* query(query, session_id) up to the first reasoning-model call of generate_response, or to
\* its early return when no API key is configured; 'history' is what the session manager
\* holds for the session
Query(api_key, query, history) ==
    /\ pc = "idle"
    /\ result = NoResult \/ QueryOver
    /\ IF api_key = NoApiKey
       THEN /\ result' = Returned(NotConfiguredMessage)
            /\ tm_log' = TmLog("query_unconfigured", NoName, EmptyParams, NoStore, Returned(<<>>),
                               tm_tools, last_sources)
            /\ UNCHANGED <<max_rounds, tool_call_history, current_round, gathered_info_summary,
                           pc, args, messages, pending, tool_results, api_calls, api_responses,
                           tool_execs, tm_tools, last_sources, latest_sources, proc_log, other_query>>
       ELSE GenerateResponse(Prompt(query), history, get_tool_definitions(tm_tools), TRUE)

\* query() once generate_response has ended: the sources are read and then reset, and the
\* pair (response, sources) is returned; an exception of generate_response gives an error
\* message with no sources, and no reset
QueryReturn ==
    /\ pc = "idle"
    /\ result.status # "none"
    /\ ~QueryOver
    /\ IF result.status = "raised"
       THEN /\ tm_log' = TmLog("query_failed", NoName, EmptyParams, NoStore, Returned(<<>>),
                               tm_tools, last_sources)
            /\ UNCHANGED <<last_sources, latest_sources>>
       ELSE /\ tm_log' = TmLog("query", NoName, EmptyParams, NoStore,
                               Returned(get_last_sources(tm_tools, last_sources)), tm_tools, last_sources)
            /\ last_sources' = reset_sources(tm_tools, last_sources)
            /\ latest_sources' = NoLatest
    /\ UNCHANGED tm_tools
    /\ UNCHANGED <<generator_vars, proc_log, other_query>>

RagNext ==
    \/ \E k \in ApiKeys, q \in Queries, h \in Histories : Query(k, q, h)
    \/ \E o \in ToolCallOutcomes : RoundCall(o)
    \/ \E s \in StoreBehaviours : ExecTool(s)
    \/ LoopDetected
    \/ \E o \in PlainCallOutcomes : SynthesisCall(o)
    \/ QueryReturn

RagSpec == Init /\ [][RagNext]_vars

(***************************************************************************)
(* Two generate_response calls in flight on one AIGenerator                *)
(***************************************************************************)
\* what the model and the vector store answer while two calls are in flight
ConcurrentCallOutcomes ==
    {Returned(Response("tool_use", <<ReqA("tu1")>>)),
     Returned(Response("end_turn", <<TextBlock(<<"Python is a language.">>)>>))}
ConcurrentSynthesisOutcomes == {Returned(Response("end_turn", <<TextBlock(<<"Python is a language.">>)>>))}
ConcurrentStores == {Store(Returned(OneResult), "Python Course", CourseMetadata)}

\* a thread switch resuming each call on a processor of its own, holding that call's records
\* and that call's round
SwitchThread_own_processor ==
    /\ other_query' = QueryLocals(pc, args, messages, pending, tool_results,
                                  api_calls, api_responses, tool_execs, result,
                                  other_query.interleaved \/ pc # "idle")
    /\ pc' = other_query.pc
    /\ args' = other_query.args
    /\ messages' = other_query.messages
    /\ pending' = other_query.pending
    /\ tool_results' = other_query.tool_results
    /\ api_calls' = other_query.api_calls
    /\ api_responses' = other_query.api_responses
    /\ tool_execs' = other_query.tool_execs
    /\ result' = other_query.result
    /\ tool_call_history' = [j \in 1..Len(other_query.tool_execs) |->
            ToolCallRecord(other_query.tool_execs[j].name, other_query.tool_execs[j].kwargs,
                           other_query.tool_execs[j].round)]
    /\ current_round' = Cardinality({i \in 1..Len(other_query.api_calls) : "tools" \in DOMAIN other_query.api_calls[i]})
    /\ UNCHANGED <<max_rounds, gathered_info_summary, tm_vars, proc_log>>

\* the thread running a generate_response call is suspended and the other thread runs: the
\* locals of the two calls change places, while self.sequential_processor (and the tool
\* manager) is the one object both calls work on
SwitchThread ==
    /\ other_query' = QueryLocals(pc, args, messages, pending, tool_results,
                                  api_calls, api_responses, tool_execs, result,
                                  other_query.interleaved \/ pc # "idle")
    /\ pc' = other_query.pc
    /\ args' = other_query.args
    /\ messages' = other_query.messages
    /\ pending' = other_query.pending
    /\ tool_results' = other_query.tool_results
    /\ api_calls' = other_query.api_calls
    /\ api_responses' = other_query.api_responses
    /\ tool_execs' = other_query.tool_execs
    /\ result' = other_query.result
    /\ UNCHANGED <<max_rounds, tool_call_history, current_round, gathered_info_summary, tm_vars, proc_log>>

\* a generator with at least one tool round, serving no query
ConcurrentInit ==
    /\ Init
    /\ max_rounds >= 1

\* each of two threads calls generate_response once, with tools, on the same generator
ConcurrentNext ==
    \/ \E q \in Queries : result = NoResult /\ GenerateResponse(q, NoHistory, ToolSchemas, TRUE)
    \/ \E o \in ConcurrentCallOutcomes : RoundCall(o)
    \/ \E s \in ConcurrentStores : ExecTool(s)
    \/ LoopDetected
    \/ \E o \in ConcurrentSynthesisOutcomes : SynthesisCall(o)
    \/ SwitchThread

ConcurrentSpec == ConcurrentInit /\ [][ConcurrentNext]_vars

TypeOK ==
    /\ pc \in {"idle", "simple", "round", "exec", "synth"}
    /\ current_round \in Nat

(***************************************************************************)
(* Vocabulary of the properties                                            *)
(***************************************************************************)
\* the query in flight (or the latest one) went through the round machinery
ToolEnabled == args.tools # NoTools /\ args.tool_manager

\* the latest generate_response call has ended
Done == pc = "idle" /\ result.status # "none"

\* a client.messages.create call that carries tool schemas
IsToolCall(call) == "tools" \in DOMAIN call

ToolCallIndexes == {i \in 1..Len(api_calls) : IsToolCall(api_calls[i])}
PlainCallIndexes == {i \in 1..Len(api_calls) : ~IsToolCall(api_calls[i])}

\* the i-th call produced a response (it did not raise)
Responded(i) == api_responses[i].status = "returned"

ToolUseBlocks(content) == SelectSeq(content, LAMBDA b : b.type = "tool_use")

\* the i-th response asks for tools and holds exactly one tool_use block
RequestsOneTool(i) ==
    /\ Responded(i)
    /\ api_responses[i].value.stop_reason = "tool_use"
    /\ Len(ToolUseBlocks(api_responses[i].value.content)) = 1

TheRequest(i) == ToolUseBlocks(api_responses[i].value.content)[1]

\* the i-th response is not a tool request
IsPlainAnswer(i) == Responded(i) /\ api_responses[i].value.stop_reason # "tool_use"

\* the i-th response starts with a text block
HasText(i) ==
    /\ Responded(i)
    /\ api_responses[i].value.content # <<>>
    /\ api_responses[i].value.content[1].type = "text"

TextOf(i) == api_responses[i].value.content[1].text

\* the messages of the conversation that carry tool results
ResultMessages == SelectSeq(SubSeq(messages, 2, Len(messages)), LAMBDA m : m.role = "user")

RECURSIVE Flatten(_)
Flatten(ss) == IF ss = <<>> THEN <<>> ELSE Head(ss) \o Flatten(Tail(ss))

\* every tool_result produced so far in the query, in order
AllToolResults == Flatten([i \in 1..Len(ResultMessages) |-> ResultMessages[i].content]) \o tool_results

C2_SecondIdenticalRequestSuppressed ==
    ( /\ ToolEnabled
      /\ Len(api_responses) >= 2
      /\ RequestsOneTool(1)
      /\ RequestsOneTool(2)
      /\ TheRequest(1).name = TheRequest(2).name
      /\ TheRequest(1).input = TheRequest(2).input )
    => /\ Len(tool_execs) <= 1
       /\ Len(messages) >= 5 => messages[5].content = <<ToolResult(TheRequest(2).id, LoopMessage)>>

(***************************************************************************)
(* C3                                                                      *)
(***************************************************************************)
ToolNames == {SearchName, OutlineName, UnknownName}
ParameterMappings == {EmptyParams, ParamsPython, ParamsNode, ParamsCourse}

C4_RoundBudget ==
    /\ 0 <= current_round
    /\ current_round <= max_rounds
    /\ current_round = Cardinality(ToolCallIndexes)
    /\ Cardinality(ToolCallIndexes) <= max_rounds
    /\ ToolEnabled =>
          /\ Cardinality(PlainCallIndexes) <= 1
          /\ \A i \in PlainCallIndexes : i = Len(api_calls) /\ pc = "idle"
          /\ result.status # "raised"
          /\ (Done /\ max_rounds = 0) => Len(api_calls) = 1 /\ PlainCallIndexes = {1}

\* the steps of a query in flight
QueryStep ==
    \/ \E o \in PlainCallOutcomes : SimpleCall(o)
    \/ \E o \in ToolCallOutcomes : RoundCall(o)
    \/ \E s \in StoreBehaviours : ExecTool(s)
    \/ LoopDetected
    \/ \E o \in PlainCallOutcomes : SynthesisCall(o)

\* the enabling condition of QueryStep written out: the guards of its actions
QueryStepEnabled ==
    /\ pc # "idle"
    /\ pc \in {"simple", "synth"} => PlainCallOutcomes # {}
    /\ pc = "round" => ToolCallOutcomes # {}
    /\ pc = "exec" =>
          /\ pending # <<>>
          /\ Head(pending).type = "tool_use"
          /\ \/ detect_loop(tool_call_history, Head(pending).name, Head(pending).input)
             \/ StoreBehaviours # {}

QueryStepEnabledIsExact == QueryStepEnabled <=> ENABLED QueryStep

\* rounds left, blocks of the current response left, calls left after the rounds
PhaseRank == IF pc = "idle" THEN 0 ELSE IF pc \in {"simple", "synth"} THEN 1 ELSE 2
Variant == <<max_rounds - current_round, Len(pending), PhaseRank>>

LexLess(a, b) ==
    \/ a[1] < b[1]
    \/ a[1] = b[1] /\ a[2] < b[2]
    \/ a[1] = b[1] /\ a[2] = b[2] /\ a[3] < b[3]

\* C4: in every reachable state 0 <= current_round <= max_rounds and current_round is the
\* number of tool-enabled model calls of the query, so there are at most max_rounds of them;
\* a tool-enabled query makes at most one call without tool schemas, that call is its last
\* one (its only one when max_rounds = 0), and it never raises. A query in flight can always
\* take a step, and every step it takes, whatever the model and the tools answer, lowers the
\* variant (rounds left, blocks left, calls left) in the lexicographic order of naturals, so
\* the query ends after a bounded number of steps.
C4_BoundedTermination ==
    /\ [](C4_RoundBudget /\ (pc # "idle" => QueryStepEnabled))
    /\ [][pc # "idle" => LexLess(Variant', Variant)]_vars

\* a query with a failed tool execution and a loop detection used its whole budget and ended
\* with the synthesis call
C4_Witness ==
    /\ ToolEnabled
    /\ Done
    /\ max_rounds >= 1
    /\ current_round = max_rounds
    /\ PlainCallIndexes = {Len(api_calls)}
    /\ \E j \in 1..Len(tool_execs) : tool_execs[j].outcome.status = "raised"
    /\ \E i \in 1..Len(AllToolResults) : AllToolResults[i].content = LoopMessage

(***************************************************************************)
(* C5                                                                      *)
(***************************************************************************)
\* C5: if the response to the k-th tool-enabled call is not a tool request, the query has
\* ended with that call: k calls in all, none of them without tool schemas (no synthesis),
\* the response is the last message of the conversation, every tool execution belongs to an
\* earlier round, and the result is the text of that response. A tool request followed by a
\* text answer gives 2 calls, 1 tool execution and the text of the second response.
C5_TextAnswerEndsQuery ==
    /\ \A k \in ToolCallIndexes : IsPlainAnswer(k) =>
          /\ k = Len(api_calls)
          /\ Done
          /\ PlainCallIndexes = {}
          /\ Len(messages) = 2 * k
          /\ messages[2 * k] = Message("assistant", api_responses[k].value.content)
          /\ \A j \in 1..Len(tool_execs) : tool_execs[j].round < k
          /\ HasText(k) => result = Returned(TextOf(k))
    /\ ( /\ ToolEnabled
         /\ Len(api_responses) = 2
         /\ RequestsOneTool(1)
         /\ IsPlainAnswer(2)
         /\ HasText(2) )
       => /\ Len(api_calls) = 2
          /\ Len(tool_execs) = 1
          /\ result = Returned(TextOf(2))

C5_Witness ==
    /\ ToolEnabled
    /\ Done
    /\ Len(api_calls) = 2
    /\ RequestsOneTool(1)
    /\ IsPlainAnswer(2)
    /\ HasText(2)
    /\ Len(tool_execs) = 1
    /\ result = Returned(TextOf(2))

C7_ToolsAttachedWithoutManager ==
    ( /\ args.tools # NoTools
      /\ ~args.tool_manager
      /\ Len(api_calls) >= 1
      /\ HasText(1) )
    => /\ IsToolCall(api_calls[1])
       /\ api_calls[1].tools = args.tools
       /\ api_calls[1].tool_choice = [type |-> "auto"]

(***************************************************************************)
(* C8                                                                      *)
(***************************************************************************)
\* the tool_use blocks of the response of round r and the tool-result message that answers it
RequestsOfRound(r) == ToolUseBlocks(messages[2 * r].content)
BatchOfRound(r) == messages[2 * r + 1].content

IsErrorEntry(entry, exec) ==
    /\ entry.tool_use_id = exec.id
    /\ Len(entry.content) = 3
    /\ entry.content[1] = "Tool execution error: "
    /\ entry.content[2] = exec.outcome.value

\* C8: a tool execution that raised in round r does not make the query raise; its place in
\* the batch is taken by a tool-result with the request's id and an error description; once
\* the loop over the requests is over, the batch is message 2r+1 of the conversation and
\* answers the requests of the round in order, up to the last one or to a loop notice; and a
\* finished query has made a later reasoning-model call (round r+1 or the synthesis).
C8_ToolErrorRecovery ==
    \A j \in 1..Len(tool_execs) : tool_execs[j].outcome.status = "raised" =>
        LET r == tool_execs[j].round
        IN  /\ result.status # "raised"
            /\ IF pc = "exec" /\ current_round = r
               THEN \E i \in 1..Len(tool_results) : IsErrorEntry(tool_results[i], tool_execs[j])
               ELSE /\ Len(messages) >= 2 * r + 1
                    /\ messages[2 * r + 1].role = "user"
                    /\ \E i \in 1..Len(BatchOfRound(r)) : IsErrorEntry(BatchOfRound(r)[i], tool_execs[j])
                    /\ Len(BatchOfRound(r)) <= Len(RequestsOfRound(r))
                    /\ \A i \in 1..Len(BatchOfRound(r)) :
                          BatchOfRound(r)[i].tool_use_id = RequestsOfRound(r)[i].id
                    /\ \/ Len(BatchOfRound(r)) = Len(RequestsOfRound(r))
                       \/ BatchOfRound(r)[Len(BatchOfRound(r))].content = LoopMessage
            /\ Done => Len(api_calls) >= r + 1

\* the first request of a batch of two failed, the second was executed, and the query went on
C8_Witness ==
    /\ Done
    /\ Len(tool_execs) >= 2
    /\ tool_execs[1].outcome.status = "raised"
    /\ tool_execs[2].outcome.status = "returned"
    /\ tool_execs[1].round = 1
    /\ tool_execs[2].round = 1
    /\ Len(BatchOfRound(1)) = 2
    /\ IsErrorEntry(BatchOfRound(1)[1], tool_execs[1])
    /\ BatchOfRound(1)[2].content = tool_execs[2].outcome.value
    /\ Len(api_calls) >= 2

(***************************************************************************)
(* C9                                                                      *)
(***************************************************************************)
\* C9: if the k-th tool-enabled call raises, the query has ended with that call and returned
\* the error message built from the exception: it is the last call (no retry, no later
\* round, no synthesis), the conversation is as it was passed to the call and every tool
\* execution belongs to an earlier round.
C9_RoundCallErrorEndsQuery ==
    \A k \in ToolCallIndexes : api_responses[k].status = "raised" =>
        /\ k = Len(api_calls)
        /\ pc = "idle"
        /\ result = Returned(<<"I encountered an error while processing your request: ",
                               api_responses[k].value>>)
        /\ PlainCallIndexes = {}
        /\ messages = api_calls[k].messages
        /\ \A j \in 1..Len(tool_execs) : tool_execs[j].round < k

C9_Witness ==
    /\ Done
    /\ Len(api_calls) = 2
    /\ IsToolCall(api_calls[2])
    /\ api_responses[2].status = "raised"
    /\ Len(tool_execs) >= 1
    /\ result = Returned(<<"I encountered an error while processing your request: ",
                           "API rate limit exceeded">>)

(***************************************************************************)
(* C10                                                                     *)
(***************************************************************************)
\* C10: on the no-tools path an exception of the reasoning-model call leaves
\* generate_response as that same exception: nothing is returned and the call is the only one.
C10_SimpleCallErrorPropagates ==
    ( /\ ~ToolEnabled
      /\ Len(api_responses) >= 1
      /\ api_responses[1].status = "raised" )
    => /\ pc = "idle"
       /\ result = Raised(api_responses[1].value)
       /\ Len(api_calls) = 1

C10_Witness ==
    /\ ~ToolEnabled
    /\ pc = "idle"
    /\ Len(api_calls) = 1
    /\ api_responses[1] = Raised("API rate limit exceeded")
    /\ result = Raised("API rate limit exceeded")

(***************************************************************************)
(* C11                                                                     *)
(***************************************************************************)
\* C11: if the synthesis call (the call without tool schemas of a tool-enabled query) raises,
\* generate_response does not raise: it returns the message "I gathered information but
\* encountered an error during synthesis: <exception>", and that call is the last
\* reasoning-model call of the query.
C11_SynthesisErrorDegrades ==
    \A k \in PlainCallIndexes : (ToolEnabled /\ api_responses[k].status = "raised") =>
        /\ pc = "idle"
        /\ result = Returned(<<"I gathered information but encountered an error during synthesis: ",
                               api_responses[k].value>>)
        /\ k = Len(api_calls)
        /\ Cardinality(PlainCallIndexes) = 1

\* two rounds of tool executions, then a synthesis call that raised
C11_Witness ==
    /\ ToolEnabled
    /\ Done
    /\ Len(api_calls) = 3
    /\ PlainCallIndexes = {3}
    /\ api_responses[3] = Raised("API rate limit exceeded")
    /\ Len(tool_execs) >= 2
    /\ result = Returned(<<"I gathered information but encountered an error during synthesis: ",
                           "API rate limit exceeded">>)

(***************************************************************************)
(* C12                                                                     *)
(***************************************************************************)
\* the i-th response requests no tool and has an empty content
IsEmptyAnswer(i) == IsPlainAnswer(i) /\ api_responses[i].value.content = <<>>

\* C12: when a response requests no tool and has an empty content, the query ends with a
\* returned message string and not with an exception, in the round loop of a tool-enabled
\* query as well as on the no-tools path.
C12_EmptyContentFallback ==
    \A k \in 1..Len(api_responses) : IsEmptyAnswer(k) =>
        /\ pc = "idle"
        /\ result.status = "returned"

(***************************************************************************)
(* C13                                                                     *)
(***************************************************************************)
NotFoundText(name) == <<"Tool '", name, "' not found">>

\* the j-th tool execution of the query asked for a name that is not registered
IsUnknownExec(j) == tool_execs[j].name \notin RegisteredTools(tm_tools)

\* C13: an execute_tool call for a name that is not registered returns the text
\* "Tool '<name>' not found" and does not raise, and leaves the registry and the last_sources
\* of every tool as they were; in the round loop that text is the content of the tool-result
\* that carries the request's id, at the request's place in the batch of its round, the query
\* does not raise, and a finished query has made a later reasoning-model call.
C13_UnknownToolNotFound ==
    /\ (tm_log.op = "execute_tool" /\ tm_log.tool_name \notin RegisteredTools(tm_log.tools_before)) =>
          /\ tm_log.outcome = Returned(NotFoundText(tm_log.tool_name))
          /\ tm_tools = tm_log.tools_before
          /\ last_sources = tm_log.sources_before
    /\ \A j \in 1..Len(tool_execs) : IsUnknownExec(j) =>
          LET r == tool_execs[j].round
              entry == ToolResult(tool_execs[j].id, NotFoundText(tool_execs[j].name))
          IN  /\ tool_execs[j].outcome = Returned(NotFoundText(tool_execs[j].name))
              /\ result.status # "raised"
              /\ IF pc = "exec" /\ current_round = r
                 THEN \E i \in 1..Len(tool_results) : tool_results[i] = entry
                 ELSE /\ Len(messages) >= 2 * r + 1
                      /\ \E i \in 1..Len(BatchOfRound(r)) :
                            /\ BatchOfRound(r)[i] = entry
                            /\ RequestsOfRound(r)[i].id = tool_execs[j].id
              /\ Done => Len(api_calls) >= r + 1

\* a search produced sources in round 1, round 2 asked for an unknown tool, and the query
\* went on to the synthesis call with the search tool's sources still in place
C13_Witness ==
    /\ Done
    /\ max_rounds = 2
    /\ Len(api_calls) = 3
    /\ Len(tool_execs) = 2
    /\ tool_execs[2].name = UnknownName
    /\ tm_log.tool_name = UnknownName
    /\ tm_log.outcome = Returned(<<"Tool '", "get_weather", "' not found">>)
    /\ last_sources[SearchName] # <<>>
    /\ Len(messages) = 5
    /\ messages[5] = Message("user", <<ToolResult("tu1", <<"Tool '", "get_weather", "' not found">>)>>)

(***************************************************************************)
(* C14                                                                     *)
(***************************************************************************)
\* generate_response has just reset the round tracker and made no call yet
AtQueryStart == pc # "idle" /\ api_calls = <<>> /\ tool_execs = <<>>

C14_FreshAtStart ==
    AtQueryStart => /\ tool_call_history = <<>>
                    /\ current_round = 0
                    /\ gathered_info_summary = <<>>

\* the call history holds the executions of the query in flight (or of the latest one) and
\* nothing else; a loop notice needs two of them; the synthesis is reached only once
\* max_rounds rounds are used up, unless a response held no tool request
C14_OwnCallsOnly ==
    /\ Len(tool_call_history) = Len(tool_execs)
    /\ \A j \in 1..Len(tool_execs) :
          tool_call_history[j] = ToolCallRecord(tool_execs[j].name, tool_execs[j].kwargs, tool_execs[j].round)
    /\ current_round = Cardinality(ToolCallIndexes)
    /\ (\E i \in 1..Len(AllToolResults) : AllToolResults[i].content = LoopMessage) => Len(tool_execs) >= 2
    /\ ( /\ ToolEnabled
         /\ pc = "synth" \/ PlainCallIndexes # {}
         /\ \A i \in ToolCallIndexes : Responded(i) /\ ToolUseBlocks(api_responses[i].value.content) # <<>> )
       => Cardinality(ToolCallIndexes) = max_rounds

\* C14: whatever the earlier queries on the generator did, every query starts its round loop
\* with an empty call history, a round counter of 0 and an empty gathered-info summary; the
\* call history then holds the executions of that query only, so a request is never flagged
\* as a loop because of an earlier query, and the query has its max_rounds rounds.
C14_NoStateBleed ==
    /\ [](C14_FreshAtStart /\ C14_OwnCallsOnly)
    /\ [][(pc = "idle" /\ pc' # "idle") =>
              /\ tool_call_history' = <<>>
              /\ current_round' = 0
              /\ gathered_info_summary' = <<>>]_vars

\* a query ran two rounds of searches that were executed, none flagged and none successful,
\* on a generator whose earlier query had executed a successful search (the search tool
\* still holds its sources)
C14_Witness ==
    /\ Done
    /\ ToolEnabled
    /\ max_rounds = 2
    /\ Len(api_calls) = 3
    /\ Len(tool_execs) = 2
    /\ Len(tool_call_history) = 2
    /\ \A j \in 1..2 : /\ tool_execs[j].name = SearchName
                       /\ tool_execs[j].outcome = Returned(<<"Test error message">>)
    /\ last_sources[SearchName] # <<>>

(***************************************************************************)
(* C15                                                                     *)
(***************************************************************************)
\* the latest direct call was of method 'op'
Called(op) == proc_log.op = op

\* C15: for max_rounds >= 1 and a round counter r >= 0, get_round_type() is FIRST_ROUND when
\* r = 0, FOLLOW_UP_ROUND when 0 < r < max_rounds and FINAL_ROUND when r >= max_rounds, and
\* should_continue_rounds() is true exactly when r < max_rounds; with max_rounds = 2 that is
\* FIRST/true at 0, FOLLOW_UP/true at 1, FINAL/false from 2 on.
C15_RoundTypeAndContinuation ==
    LET r == proc_log.round
        mx == proc_log.max_rounds
    IN  /\ (Called("get_round_type") /\ mx >= 1) =>
              /\ r >= 0
              /\ r = 0 => proc_log.value = "first_round"
              /\ (0 < r /\ r < mx) => proc_log.value = "follow_up_round"
              /\ r >= mx => proc_log.value = "final_round"
        /\ (Called("should_continue_rounds") /\ mx >= 1) => (proc_log.value <=> r < mx)
        /\ (Called("get_round_type") /\ mx = 2) =>
              proc_log.value = (IF r = 0 THEN "first_round" ELSE IF r = 1 THEN "follow_up_round"
                                ELSE "final_round")
        /\ (Called("should_continue_rounds") /\ mx = 2) => (proc_log.value <=> r \in {0, 1})

\* get_round_type() on a processor of 2 rounds whose counter is past 2
C15_Witness ==
    /\ Called("get_round_type")
    /\ proc_log.max_rounds = 2
    /\ proc_log.round = 3
    /\ current_round = 3
    /\ proc_log.value = "final_round"

(***************************************************************************)
(* C16                                                                     *)
(***************************************************************************)
IsOne(x) == x[1] = x[2] /\ x[2] > 0
IsZero(x) == x[1] = 0 /\ x[2] > 0

\* C16: _calculate_parameter_similarity is 1.0 for two empty parameter mappings, 0.0 when
\* exactly one of the two is empty, and 0.0 when both are non-empty and share no key.
C16_SimilarityOfEmptyAndDisjoint ==
    Called("_calculate_parameter_similarity") =>
        LET keys1 == DOMAIN proc_log.params1
            keys2 == DOMAIN proc_log.params2
        IN  /\ (keys1 = {} /\ keys2 = {}) => IsOne(proc_log.value)
            /\ ((keys1 = {}) # (keys2 = {})) => IsZero(proc_log.value)
            /\ (keys1 # {} /\ keys2 # {} /\ keys1 \cap keys2 = {}) => IsZero(proc_log.value)

\* two empty mappings were compared
C16_Witness ==
    /\ Called("_calculate_parameter_similarity")
    /\ proc_log.params1 = EmptyParams
    /\ proc_log.params2 = EmptyParams
    /\ proc_log.value = <<1, 1>>

(***************************************************************************)
(* C17                                                                     *)
(***************************************************************************)
\* the indexes of the 3 most recent records of a history
LastThree(h) == {i \in 1..Len(h) : i > Len(h) - 3}

\* a query of 4 of the 5 words of another: 4 shared words out of 5
FourOfFive(p, q) == {p, q} = {ParamsFour, ParamsFive}

\* C17: with at least 2 recorded calls, detect_loop(name, params) is true exactly when one of
\* the 3 most recent records has the same tool name and a parameter similarity strictly above
\* 0.8; records with another tool name, records whose similarity is exactly 0.8 (4 shared
\* words out of 5) and records older than the 3 most recent do not count.
C17_LoopDetectionExact ==
    (Called("detect_loop") /\ Len(proc_log.history) >= 2) =>
        LET h == proc_log.history
            sim(i) == _calculate_parameter_similarity(h[i].parameters, proc_log.params1)
            Counts(i) == /\ i \in LastThree(h)
                         /\ h[i].tool_name = proc_log.tool_name
                         /\ sim(i)[1] * 10 > 8 * sim(i)[2]
        IN  /\ proc_log.value <=> \E i \in 1..Len(h) : Counts(i)
            /\ (\A i \in LastThree(h) : \/ h[i].tool_name # proc_log.tool_name
                                        \/ FourOfFive(h[i].parameters, proc_log.params1))
               => ~proc_log.value

\* an identical record lies further back than the 3 most recent ones, which hold the same
\* parameters under another tool name and, twice, a query of the same tool 4 words out of 5
\* away: no loop
C17_Witness ==
    /\ Called("detect_loop")
    /\ proc_log.tool_name = SearchName
    /\ proc_log.params1 = ParamsFour
    /\ proc_log.history = <<ToolCallRecord(SearchName, ParamsFour, 0),
                            ToolCallRecord(OutlineName, ParamsFour, 0),
                            ToolCallRecord(SearchName, ParamsFive, 0),
                            ToolCallRecord(SearchName, ParamsFive, 0)>>
    /\ proc_log.value = FALSE

(***************************************************************************)
(* C18                                                                     *)
(***************************************************************************)
\* the rounds whose response holds tool requests and whose loop over the requests is over
AnsweredRounds ==
    {r \in 1..current_round : /\ Len(messages) >= 2 * r
                              /\ messages[2 * r].role = "assistant"
                              /\ RequestsOfRound(r) # <<>>
                              /\ ~(pc = "exec" /\ current_round = r)}

\* the message after the response of round r is a tool-result message whose i-th entry
\* carries the id of the i-th request, for as many entries as it holds
EchoesIds(r) ==
    /\ Len(messages) >= 2 * r + 1
    /\ messages[2 * r + 1].role = "user"
    /\ Len(BatchOfRound(r)) >= 1
    /\ Len(BatchOfRound(r)) <= Len(RequestsOfRound(r))
    /\ \A i \in 1..Len(BatchOfRound(r)) :
          /\ BatchOfRound(r)[i].type = "tool_result"
          /\ BatchOfRound(r)[i].tool_use_id = RequestsOfRound(r)[i].id

\* C18 as stated: every tool request of a response is answered in the tool-result message
\* appended next, which holds exactly one entry per request, in request order, each with the
\* id of its request.
C18_EveryRequestAnswered ==
    \A r \in AnsweredRounds :
        /\ EchoesIds(r)
        /\ Len(BatchOfRound(r)) = Len(RequestsOfRound(r))

\* C18, amended: the tool requests of a response are answered in the tool-result message
\* appended next up to the first request that loop detection flags: the message holds one
\* entry per request, in request order, each with the id of its request, and ends with the
\* entry of the last request or with the loop-detected notice of the flagged request, which
\* is its only loop-detected notice; the requests after a flagged one get no entry.
C18_RequestsAnsweredUpToLoop ==
    \A r \in AnsweredRounds :
        /\ EchoesIds(r)
        /\ \A i \in 1..(Len(BatchOfRound(r)) - 1) : BatchOfRound(r)[i].content # LoopMessage
        /\ \/ Len(BatchOfRound(r)) = Len(RequestsOfRound(r))
           \/ BatchOfRound(r)[Len(BatchOfRound(r))].content = LoopMessage

\* round 2 asked for two tools, the first was flagged as a loop, the second got no entry
C18_Witness ==
    /\ Len(messages) >= 5
    /\ 2 \in AnsweredRounds
    /\ Len(RequestsOfRound(2)) = 2
    /\ Len(BatchOfRound(2)) = 1
    /\ BatchOfRound(2)[1].tool_use_id = RequestsOfRound(2)[1].id
    /\ BatchOfRound(2)[1].content = LoopMessage
    /\ Len(BatchOfRound(1)) = 2

(***************************************************************************)
(* C19                                                                     *)
(***************************************************************************)
\* C19: after any sequence of tool executions, get_last_sources() returns the list assigned
\* by the tool that produced sources most recently, not the list of a tool executed earlier:
\* after a content search followed by an outline lookup it returns the outline's source.
C19_LastSourcesAreLatest ==
    latest_sources # NoLatest =>
        get_last_sources(tm_tools, last_sources) = latest_sources.sources

(***************************************************************************)
(* C20                                                                     *)
(***************************************************************************)
\* the latest ToolManager call ran the tool 'name', which returned
Executed(name) ==
    /\ tm_log.op = "execute_tool"
    /\ tm_log.tool_name = name
    /\ name \in RegisteredTools(tm_log.tools_before)
    /\ tm_log.outcome.status = "returned"

\* the search of the latest call gave an error or no document
SearchGaveNothing ==
    \/ tm_log.store.search.value.error # NoError
    \/ tm_log.store.search.value.documents = <<>>

\* C20: an execution of a tool leaves in the tool's last_sources the sources of that
\* execution and nothing of the earlier ones: one source per passage after a successful
\* search, the empty list after a search that gave an error or an empty result set, one
\* source after a successful outline lookup.
C20_SourcesOverwritten ==
    /\ Executed(SearchName) =>
          IF SearchGaveNothing
          THEN last_sources[SearchName] = <<>>
          ELSE Len(last_sources[SearchName]) = ZipLength(tm_log.store.search.value)
    /\ (Executed(OutlineName) /\ tm_log.store.resolved # NoTitle /\ tm_log.store.metadata # NoMetadata)
          => Len(last_sources[OutlineName]) = 1

(***************************************************************************)
(* C21                                                                     *)
(***************************************************************************)
\* the latest query() read the sources and reset them
SourcesConsumed == tm_log.op = "query"

\* the sources query() returned
ReturnedSources == tm_log.outcome.value

\* C21: reset_sources empties the last_sources of every registered tool, so directly after it
\* get_last_sources() returns the empty list; and with a caller that reads and then resets
\* the sources at the end of each query, every source returned for a query is one that a
\* tool execution of that same query assigned.
C21_ResetIsolatesQueries ==
    SourcesConsumed =>
        /\ \A n \in RegisteredTools(tm_tools) : last_sources[n] = <<>>
        /\ get_last_sources(tm_tools, last_sources) = <<>>
        /\ \A i \in 1..Len(ReturnedSources) :
              \E j \in 1..Len(tool_execs) :
                 \E k \in 1..Len(tool_execs[j].sources) : tool_execs[j].sources[k] = ReturnedSources[i]

\* a query ran the search tool and the outline tool, both assigned sources, query() returned
\* sources and its reset emptied both lists
C21_Witness ==
    /\ SourcesConsumed
    /\ tool_execs # <<>>
    /\ \A n \in RegisteredTools(tm_tools) : tm_log.sources_before[n] # <<>>
    /\ ReturnedSources # <<>>
    /\ last_sources = NoSources

(***************************************************************************)
(* C22                                                                     *)
(***************************************************************************)
\* the latest ToolManager call was register_tool
Registering == tm_log.op = "register_tool"

\* what the tool registered under 'name' gives for the arguments of the latest call
ExecuteOf(name) ==
    IF name = SearchName
    THEN CourseSearchTool_execute(tm_log.kwargs, tm_log.store, tm_log.sources_before[name])
    ELSE CourseOutlineTool_execute(tm_log.kwargs, tm_log.store, tm_log.sources_before[name])

\* C22: register_tool with a tool whose definition has no name (missing or empty) raises and
\* leaves the registry as it was; with a name it returns and the registry holds that name
\* next to the names it held; execute_tool for a registered name gives what that tool's
\* execute gives; and get_tool_definitions returns one schema per registered name, no more.
C22_RegistrationByName ==
    /\ (Registering /\ tm_log.tool_name = NoName) =>
          /\ tm_log.outcome.status = "raised"
          /\ tm_tools = tm_log.tools_before
    /\ (Registering /\ tm_log.tool_name # NoName) =>
          /\ tm_log.outcome.status = "returned"
          /\ RegisteredTools(tm_tools) = RegisteredTools(tm_log.tools_before) \cup {tm_log.tool_name}
    /\ (tm_log.op = "execute_tool" /\ tm_log.tool_name \in RegisteredTools(tm_log.tools_before)) =>
          /\ tm_log.outcome = ExecuteOf(tm_log.tool_name).outcome
          /\ last_sources[tm_log.tool_name] = ExecuteOf(tm_log.tool_name).last_sources
    /\ Len(get_tool_definitions(tm_tools)) = Cardinality(RegisteredTools(tm_tools))
    /\ \A n \in RegisteredTools(tm_tools) :
          Cardinality({i \in 1..Len(get_tool_definitions(tm_tools)) : get_tool_definitions(tm_tools)[i] = n}) = 1
    /\ NoName \notin RegisteredTools(tm_tools)

\* a tool without a name was refused by a manager that holds both tools
C22_Witness ==
    /\ Registering
    /\ tm_log.tool_name = NoName
    /\ tm_log.outcome = Raised("Tool must have a 'name' in its definition")
    /\ tm_log.tools_before = <<OutlineName, SearchName>>
    /\ tm_tools = <<OutlineName, SearchName>>

(***************************************************************************)
(* C23                                                                     *)
(***************************************************************************)
\* the search of the latest call gave no document and no error
SearchGaveEmpty ==
    /\ tm_log.store.search.value.error = NoError
    /\ tm_log.store.search.value.documents = <<>>

HasPiece(text, piece) == \E i \in 1..Len(text) : text[i] = piece

\* the keyword argument 'key' was supplied to the latest call
Supplied(key) == key \in DOMAIN tm_log.kwargs

\* C23: for an empty result set without error the search tool returns a message that starts
\* with "No relevant content found", names the course whenever course_name was supplied and
\* the lesson number whenever lesson_number was supplied, lesson 0 included, and names no
\* filter that was not supplied.
C23_EmptyMessageNamesFilters ==
    (Executed(SearchName) /\ SearchGaveEmpty) =>
        LET message == tm_log.outcome.value
        IN  /\ message[1] = "No relevant content found"
            /\ Supplied("course_name") =>
                  \A i \in 1..Len(tm_log.kwargs.course_name.words) :
                      HasPiece(message, tm_log.kwargs.course_name.words[i])
            /\ Supplied("lesson_number") =>
                  /\ HasPiece(message, " in lesson ")
                  /\ HasPiece(message, IntStr(tm_log.kwargs.lesson_number.val))
            /\ ~Supplied("course_name") => ~HasPiece(message, " in course '")
            /\ ~Supplied("lesson_number") => ~HasPiece(message, " in lesson ")

(***************************************************************************)
(* C24                                                                     *)
(***************************************************************************)
\* the passages the store gave to the latest call
Passages == tm_log.store.search.value

\* "Course Title - Lesson N", or "Course Title" for a passage without lesson number
ExpectedLabel(meta) ==
    <<CourseTitleOf(meta)>>
    \o (IF "lesson_number" \in DOMAIN meta THEN <<" - Lesson ", IntStr(meta.lesson_number)>> ELSE <<>>)

ExpectedBlock(i) == <<"[">> \o ExpectedLabel(Passages.metadata[i]) \o <<"]", "\n", Passages.documents[i]>>

RECURSIVE ExpectedBlocksFrom(_)
\* the blocks i..n, a blank line between two of them
ExpectedBlocksFrom(i) ==
    IF i > Len(Passages.documents) THEN <<>>
    ELSE IF i = Len(Passages.documents) THEN ExpectedBlock(i)
    ELSE ExpectedBlock(i) \o <<"\n\n">> \o ExpectedBlocksFrom(i + 1)

\* C24: a successful search with n >= 1 passages returns n blocks in result order with a
\* blank line between them, the i-th being the header [Course Title - Lesson N] (without the
\* lesson part when the passage has no lesson number), a newline and the passage text; it
\* records n sources in the same order, the i-th labelled as the i-th header, and a source
\* carries a link only when its passage has a lesson number.
C24_FormattedBlocksAndSources ==
    (Executed(SearchName) /\ ~SearchGaveNothing) =>
        LET n == Len(Passages.documents)
            sources == last_sources[SearchName]
        IN  /\ n >= 1
            /\ tm_log.outcome.value = ExpectedBlocksFrom(1)
            /\ Len(sources) = n
            /\ \A i \in 1..n :
                  /\ sources[i].text = ExpectedLabel(Passages.metadata[i])
                  /\ sources[i].link # NoLink => "lesson_number" \in DOMAIN Passages.metadata[i]

\* two passages, the second without lesson number: two blocks and two sources, the first
\* with the lesson's link and the second without link
C24_Witness ==
    /\ Executed(SearchName)
    /\ Passages = TwoResults
    /\ tm_log.outcome.value =
          <<"[", "Python Course", " - Lesson ", "1", "]", "\n", "First document about variables", "\n\n",
            "[", "Python Course", "]", "\n", "Course overview content">>
    /\ last_sources[SearchName] =
          <<Source(<<"Python Course", " - Lesson ", "1">>, "http://example.com/lesson1"),
            Source(<<"Python Course">>, NoLink)>>

(***************************************************************************)
(* C25                                                                     *)
(***************************************************************************)
\* the latest ToolManager call ran the search tool, which queried the store and got an answer
SearchRan ==
    /\ tm_log.op = "execute_tool"
    /\ tm_log.tool_name = SearchName
    /\ SearchName \in RegisteredTools(tm_log.tools_before)
    /\ "query" \in DOMAIN tm_log.kwargs
    /\ DOMAIN tm_log.kwargs \subseteq {"query", "course_name", "lesson_number"}
    /\ tm_log.store.search.status = "returned"

\* the latest ToolManager call ran the outline tool with a course name
OutlineRan ==
    /\ tm_log.op = "execute_tool"
    /\ tm_log.tool_name = OutlineName
    /\ OutlineName \in RegisteredTools(tm_log.tools_before)
    /\ DOMAIN tm_log.kwargs = {"course_name"}

\* C25: when the store reports an error the search tool returns the error text as it is, does
\* not raise and formats no passage (its last_sources stay as they were); an outline lookup
\* whose course name cannot be resolved returns a "No course found" message; a successful
\* outline lookup leaves exactly one source, the course title with the course link, whatever
\* the number of lessons.
C25_ErrorTextAndOutlineSource ==
    /\ (SearchRan /\ tm_log.store.search.value.error # NoError) =>
          /\ tm_log.outcome = Returned(<<tm_log.store.search.value.error>>)
          /\ last_sources = tm_log.sources_before
    /\ (OutlineRan /\ tm_log.store.resolved = NoTitle) =>
          /\ tm_log.outcome.status = "returned"
          /\ tm_log.outcome.value[1] = "No course found matching '"
          /\ last_sources = tm_log.sources_before
    /\ (OutlineRan /\ tm_log.store.resolved # NoTitle /\ tm_log.store.metadata # NoMetadata) =>
          /\ tm_log.outcome.status = "returned"
          /\ last_sources[OutlineName] =
                <<Source(<<tm_log.store.metadata.title>>,
                         IF "course_link" \in DOMAIN tm_log.store.metadata
                         THEN tm_log.store.metadata.course_link ELSE NoLink)>>

\* the store reported an error to a search tool that held the source of an earlier search
C25_Witness ==
    /\ SearchRan
    /\ tm_log.store.search.value = ErrorResults
    /\ tm_log.outcome = Returned(<<"Test error message">>)
    /\ tm_log.sources_before[SearchName] # <<>>
    /\ last_sources[SearchName] = tm_log.sources_before[SearchName]

(***************************************************************************)
(* C26                                                                     *)
(***************************************************************************)
\* the k-th message of a call is the k-th message of a conversation that holds the query,
\* then the model's responses and the tool-result batches in turn, and nothing else
IsConversationMessage(msgs, k) ==
    IF k = 1 THEN msgs[k] = Message("user", args.query)
    ELSE IF k % 2 = 0
    THEN /\ Responded(k \div 2)
         /\ msgs[k] = Message("assistant", api_responses[k \div 2].value.content)
    ELSE /\ msgs[k].role = "user"
         /\ msgs[k].content # <<>>
         /\ \A e \in 1..Len(msgs[k].content) : msgs[k].content[e].type = "tool_result"

\* C26: when generate_response is given a conversation history, the system instructions of
\* every reasoning-model call of the query (each round, the synthesis, the call of the
\* no-tools path) hold the section "Previous conversation:" followed by that string; when it
\* is given none they hold no such section. The message list of every call starts with the
\* user's query and holds no message made of the history.
C26_HistoryInSystemPromptOnly ==
    \A i \in 1..Len(api_calls) :
        /\ args.conversation_history # NoHistory =>
              api_calls[i].system.history = <<"\n\nPrevious conversation:\n", args.conversation_history>>
        /\ args.conversation_history = NoHistory => api_calls[i].system.history = <<>>
        /\ Len(api_calls[i].messages) >= 1
        /\ \A k \in 1..Len(api_calls[i].messages) : IsConversationMessage(api_calls[i].messages, k)

\* a query with a history made two rounds and the synthesis call
C26_Witness ==
    /\ ToolEnabled
    /\ Done
    /\ args.conversation_history = "User: hi / Assistant: hello"
    /\ Len(api_calls) = 3
    /\ PlainCallIndexes = {3}
    /\ Len(api_calls[3].messages) = 5
    /\ \A i \in 1..3 : api_calls[i].system.history =
                          <<"\n\nPrevious conversation:\n", "User: hi / Assistant: hello">>

(***************************************************************************)
(* C27                                                                     *)
(***************************************************************************)
\* the loop over the requests of a response stands at a request that detect_loop flags
AtFlaggedRequest ==
    /\ pc = "exec"
    /\ detect_loop(tool_call_history, Head(pending).name, Head(pending).input)

\* the executions and the history records of round r
ExecsOfRound(r) == {j \in 1..Len(tool_execs) : tool_execs[j].round = r}
RecordsOfRound(r) == {j \in 1..Len(tool_call_history) : tool_call_history[j].round_num = r}

\* the batch of round r ends with a loop-detected notice
EndsWithLoopNotice(r) ==
    /\ Len(messages) >= 2 * r + 1
    /\ BatchOfRound(r)[Len(BatchOfRound(r))].content = LoopMessage

\* a batch that ends with a loop notice holds that one notice, under the id of the request at
\* its place, after one result per earlier request, and the round executed and recorded the
\* earlier requests only
C27_BatchCutAtNotice ==
    \A r \in AnsweredRounds : EndsWithLoopNotice(r) =>
        LET batch == BatchOfRound(r)
        IN  /\ messages[2 * r + 1].role = "user"
            /\ Len(batch) <= Len(RequestsOfRound(r))
            /\ \A i \in 1..Len(batch) : batch[i].tool_use_id = RequestsOfRound(r)[i].id
            /\ \A i \in 1..(Len(batch) - 1) : batch[i].content # LoopMessage
            /\ Cardinality(ExecsOfRound(r)) = Len(batch) - 1
            /\ Cardinality(RecordsOfRound(r)) = Len(batch) - 1

\* the step taken at a flagged request executes and records nothing, ends the loop over the
\* requests, and appends one user message: the results so far and then the notice
C27_FlaggedStep ==
    AtFlaggedRequest =>
        /\ tool_execs' = tool_execs
        /\ tool_call_history' = tool_call_history
        /\ last_sources' = last_sources
        /\ pc' # "exec"
        /\ pending' = <<>>
        /\ messages' = Append(messages,
                              Message("user", Append(tool_results, ToolResult(Head(pending).id, LoopMessage))))

\* C27: when detect_loop is true for a request of a batch, that request and the later
\* requests of the batch are not executed and not recorded in the call history; one
\* loop-detected tool-result with the id of the flagged request is appended after the
\* results of the earlier requests, and the batch is appended to the conversation as one
\* user message.
C27_LoopCutsBatch == [](C27_BatchCutAtNotice) /\ [][C27_FlaggedStep]_vars

\* round 2 asked for three searches: the first ran, the second was flagged, the third was
\* skipped
C27_Witness ==
    /\ 2 \in AnsweredRounds
    /\ Len(messages) >= 5
    /\ Len(RequestsOfRound(2)) = 3
    /\ Len(BatchOfRound(2)) = 2
    /\ BatchOfRound(2)[1].content # LoopMessage
    /\ BatchOfRound(2)[2] = ToolResult("tu2", LoopMessage)
    /\ Cardinality(ExecsOfRound(2)) = 1
    /\ Len(tool_call_history) = 2

(***************************************************************************)
(* C28                                                                     *)
(***************************************************************************)
\* C28: once loop detection has cut a batch short in round r, tool calling is over for the
\* query: no tool is executed in a later round, and the next reasoning-model call is the
\* synthesis call, without tool schemas, even when r < max_rounds.
C28_LoopStopsToolCalling ==
    \A r \in AnsweredRounds : EndsWithLoopNotice(r) =>
        /\ pc # "round"
        /\ \A j \in 1..Len(tool_execs) : tool_execs[j].round <= r
        /\ \A i \in (r + 1)..Len(api_calls) : ~IsToolCall(api_calls[i])

(***************************************************************************)
(* C29                                                                     *)
(***************************************************************************)
\* C29: the synthesis call (the call without tool schemas of a tool-enabled query) is built
\* with the no-more-rounds variant of the prompt: its system instructions hold the
\* synthesis-phase addition and not the final-round addition.
C29_SynthesisPromptVariant ==
    ToolEnabled =>
        \A i \in PlainCallIndexes :
            /\ api_calls[i].system.addition = "NO_MORE_ROUNDS_PROMPT_ADDITION"
            /\ api_calls[i].system.addition # "FINAL_ROUND_PROMPT_ADDITION"

(***************************************************************************)
(* C30                                                                     *)
(***************************************************************************)
\* the categories of the tool results appended to the conversation so far
CategoriesSoFar ==
    UNION {InfoTypes(ResultMessages[m].content) : m \in 1..Len(ResultMessages)}

\* C30: the gathered-info summary is a running summary over the rounds of the query: after
\* the update of round k it names, each once, the category of every categorised tool result
\* of rounds 1..k, so a category gathered in an earlier round is still named in the prompts
\* of the later rounds.
C30_RunningSummary ==
    /\ \A c \in CategoriesSoFar : \E i \in 1..Len(gathered_info_summary) : gathered_info_summary[i] = c
    /\ \A i, j \in 1..Len(gathered_info_summary) :
          gathered_info_summary[i] = gathered_info_summary[j] => i = j

(***************************************************************************)
(* C31                                                                     *)
(***************************************************************************)
RECURSIVE ReplayBlocks(_, _, _)
\* the requests of one response replayed from the call history alone: which are executed,
\* which one is flagged, how many entries the batch holds
ReplayBlocks(blocks, round, acc) ==
    IF blocks = <<>> THEN acc
    ELSE LET b == Head(blocks)
         IN  IF b.type # "tool_use" THEN ReplayBlocks(Tail(blocks), round, acc)
             ELSE IF detect_loop(acc.history, b.name, b.input)
             THEN [acc EXCEPT !.flagged = @ \cup {[round |-> round, id |-> b.id]},
                              !.entries = @ + 1]
             ELSE ReplayBlocks(Tail(blocks), round,
                     [acc EXCEPT !.history = Append(@, ToolCallRecord(b.name, b.input, round)),
                                 !.execs = Append(@, [name |-> b.name, kwargs |-> b.input,
                                                      id |-> b.id, round |-> round]),
                                 !.entries = @ + 1])

RECURSIVE ReplayCalls(_, _)
\* the control flow of a tool-enabled query replayed from the outcomes of its model calls,
\* max_rounds and the requests' names and parameters, without any tool-result text and
\* without the summary
ReplayCalls(i, acc) ==
    IF i > Len(api_responses) THEN acc
    ELSE LET o == api_responses[i]
         IN  IF acc.pc = "round"
             THEN LET a1 == [acc EXCEPT !.round = @ + 1, !.with_tools = Append(@, TRUE)]
                  IN  IF o.status = "raised"
                      THEN ReplayCalls(i + 1, [a1 EXCEPT !.pc = "idle",
                                                         !.result = OnRoundError(o.value).result])
                      ELSE IF o.value.stop_reason # "tool_use"
                      THEN ReplayCalls(i + 1, [a1 EXCEPT !.pc = "idle",
                                                         !.result = OnTextResponse(o.value).result])
                      ELSE LET a2 == ReplayBlocks(o.value.content, a1.round, [a1 EXCEPT !.entries = 0])
                           IN  ReplayCalls(i + 1,
                                  [a2 EXCEPT !.pc = IF a2.entries = 0 THEN "synth"
                                                    ELSE IF a2.round < max_rounds THEN "round"
                                                    ELSE "synth"])
             ELSE IF acc.pc = "synth"
             THEN ReplayCalls(i + 1, [acc EXCEPT !.pc = "idle", !.with_tools = Append(@, FALSE),
                                                 !.result = SynthesisResult(o)])
             ELSE [acc EXCEPT !.pc = "stray"]

Replayed ==
    ReplayCalls(1, [pc |-> IF 0 < max_rounds THEN "round" ELSE "synth", round |-> 0, history |-> <<>>,
                    execs |-> <<>>, flagged |-> {}, entries |-> 0, with_tools |-> <<>>,
                    result |-> NoResult])

\* the requests answered by a loop notice so far, by round and id
FlaggedSoFar ==
    UNION {{[round |-> r, id |-> BatchOfRound(r)[i].tool_use_id] :
               i \in {k \in 1..Len(BatchOfRound(r)) : BatchOfRound(r)[k].content = LoopMessage}} :
           r \in {q \in 1..current_round : Len(messages) >= 2 * q + 1}}

\* C31: the summary and the text of the tool results never influence control flow. Between
\* batches the control state of a tool-enabled query is a function of the outcomes of its
\* model calls alone: the position of the query, the round counter, the calls made and which
\* of them carry tool schemas, the tools executed with their order, the call history, the
\* requests flagged as loops and the way the query ended are those of a replay that reads no
\* tool-result text and no summary; so two runs with the same model responses agree on all
\* of them, whatever the tools answered.
C31_ControlIgnoresToolText ==
    (ToolEnabled /\ pc # "exec") =>
        LET replayed == Replayed
        IN  /\ pc = replayed.pc
            /\ current_round = replayed.round
            /\ tool_call_history = replayed.history
            /\ Len(api_calls) = Len(replayed.with_tools)
            /\ \A i \in 1..Len(api_calls) : IsToolCall(api_calls[i]) = replayed.with_tools[i]
            /\ Len(tool_execs) = Len(replayed.execs)
            /\ \A j \in 1..Len(tool_execs) :
                  [name |-> tool_execs[j].name, kwargs |-> tool_execs[j].kwargs,
                   id |-> tool_execs[j].id, round |-> tool_execs[j].round] = replayed.execs[j]
            /\ FlaggedSoFar = replayed.flagged
            /\ result = replayed.result

\* a finished query whose tools returned a passage, raised and were cut by a loop notice, and
\* whose summary named a category
C31_Witness ==
    /\ ToolEnabled
    /\ Done
    /\ max_rounds = 2
    /\ Len(api_calls) = 3
    /\ \E j \in 1..Len(tool_execs) : tool_execs[j].outcome.status = "raised"
    /\ \E j \in 1..Len(tool_execs) : tool_execs[j].sources # <<>>
    /\ FlaggedSoFar # {}
    /\ gathered_info_summary # <<>>
    /\ FlaggedSoFar = Replayed.flagged

(***************************************************************************)
(* C32                                                                     *)
(***************************************************************************)
\* the conversation starts with the user's query and its roles alternate
C32_AlternatingRoles ==
    (ToolEnabled /\ (pc # "idle" \/ Done)) =>
        /\ Len(messages) >= 1
        /\ messages[1] = Message("user", args.query)
        /\ \A k \in 1..Len(messages) : messages[k].role = (IF k % 2 = 1 THEN "user" ELSE "assistant")
        /\ \A k \in ToolCallIndexes : Len(api_calls[k].messages) = 2 * k - 1
        /\ (Len(api_calls) >= 2 /\ IsToolCall(api_calls[2])) =>
              /\ Len(api_calls[2].messages) = 3
              /\ api_calls[2].messages[1] = Message("user", args.query)
              /\ api_calls[2].messages[2].role = "assistant"
              /\ api_calls[2].messages[3].role = "user"
        /\ \A i \in 1..Len(api_calls) :
              /\ Len(api_calls[i].messages) <= Len(messages)
              /\ api_calls[i].messages = SubSeq(messages, 1, Len(api_calls[i].messages))

\* a step of a query in flight leaves the messages it found as they are and appends at
\* most one
C32_AppendOnlyStep ==
    pc # "idle" =>
        /\ Len(messages') \in {Len(messages), Len(messages) + 1}
        /\ SubSeq(messages', 1, Len(messages)) = messages

\* C32: throughout a tool-enabled query the conversation is append-only and its roles
\* alternate: it starts with the user's query as only message, each appended message has the
\* role opposite to the one before it, no message is removed or changed, and the
\* conversation passed to the k-th tool-enabled model call has 2k-1 messages (3 for the
\* second call: the query, the assistant's tool request, the user's tool results).
C32_ConversationAppendOnly == [](C32_AlternatingRoles) /\ [][C32_AppendOnlyStep]_vars

\* two rounds with batches of two results and of one, then the synthesis over 5 messages
C32_Witness ==
    /\ ToolEnabled
    /\ Done
    /\ Len(messages) = 5
    /\ Len(messages[3].content) = 2
    /\ Len(api_calls) = 3
    /\ Len(api_calls[1].messages) = 1
    /\ Len(api_calls[2].messages) = 3
    /\ Len(api_calls[3].messages) = 5

(***************************************************************************)
(* C33                                                                     *)
(***************************************************************************)
\* the executions of round r, in the order they were made
ExecSeqOfRound(r) == SelectSeq(tool_execs, LAMBDA e : e.round = r)

\* the i-th execution of a round ran the i-th request of the round's response, and the i-th
\* entry of 'batch' is its result
InRequestOrder(r, batch) ==
    /\ Len(ExecSeqOfRound(r)) <= Len(RequestsOfRound(r))
    /\ Len(ExecSeqOfRound(r)) <= Len(batch)
    /\ \A i \in 1..Len(ExecSeqOfRound(r)) :
          /\ ExecSeqOfRound(r)[i].id = RequestsOfRound(r)[i].id
          /\ ExecSeqOfRound(r)[i].name = RequestsOfRound(r)[i].name
          /\ ExecSeqOfRound(r)[i].kwargs = RequestsOfRound(r)[i].input
          /\ batch[i].tool_use_id = RequestsOfRound(r)[i].id
          /\ batch[i].content = (IF ExecSeqOfRound(r)[i].outcome.status = "returned"
                                 THEN ExecSeqOfRound(r)[i].outcome.value
                                 ELSE <<"Tool execution error: ", ExecSeqOfRound(r)[i].outcome.value,
                                        ". Please work with available information.">>)

C33_OrderedAndComplete ==
    /\ \A j \in 1..(Len(tool_execs) - 1) : tool_execs[j].round <= tool_execs[j + 1].round
    /\ pc = "exec" =>
          /\ InRequestOrder(current_round, tool_results)
          /\ Len(tool_results) = Len(ExecSeqOfRound(current_round))
          /\ Len(api_calls) = current_round
    /\ \A r \in AnsweredRounds :
          /\ Len(messages) >= 2 * r + 1
          /\ InRequestOrder(r, BatchOfRound(r))
          /\ \/ /\ Len(BatchOfRound(r)) = Len(RequestsOfRound(r))
                /\ Len(ExecSeqOfRound(r)) = Len(RequestsOfRound(r))
             \/ /\ BatchOfRound(r)[Len(BatchOfRound(r))].content = LoopMessage
                /\ Len(ExecSeqOfRound(r)) = Len(BatchOfRound(r)) - 1
          /\ Len(api_calls) > r =>
                /\ Len(api_calls[r + 1].messages) = 2 * r + 1
                /\ api_calls[r + 1].messages[2 * r + 1] = messages[2 * r + 1]

\* a step runs at most one tool, and no model call is made while requests of the round are
\* still to be processed
C33_OneAtATime ==
    /\ Len(tool_execs') <= Len(tool_execs) + 1
    /\ pc = "exec" =>
          /\ api_calls' = api_calls
          /\ Len(tool_execs') > Len(tool_execs) =>
                /\ tool_execs'[Len(tool_execs')].id = Head(pending).id
                /\ SubSeq(tool_execs', 1, Len(tool_execs)) = tool_execs
          /\ pc' = "exec" => /\ Len(tool_results') = Len(tool_results) + 1
                             /\ SubSeq(tool_results', 1, Len(tool_results)) = tool_results

\* C33: execution is strictly sequential: within a round the requested tools are executed
\* one at a time in the order the model emitted them, and their results stand in the grouped
\* message in that same order; the model call of round k+1, or the synthesis call, is made
\* only after all tool-results of round k have been appended to the conversation, and its
\* message list holds them.
C33_StrictlySequential == [](C33_OrderedAndComplete) /\ [][C33_OneAtATime]_vars

\* round 1 asked for a search and then an outline: both ran in that order, the batch holds
\* their results in that order, and the second call was made over it
C33_Witness ==
    /\ Len(api_calls) >= 2
    /\ Len(RequestsOfRound(1)) = 2
    /\ Len(tool_execs) >= 2
    /\ tool_execs[1].name = SearchName
    /\ tool_execs[2].name = OutlineName
    /\ tool_execs[1].round = 1
    /\ tool_execs[2].round = 1
    /\ BatchOfRound(1) = <<ToolResult("tu1", tool_execs[1].outcome.value),
                           ToolResult("tu2", tool_execs[2].outcome.value)>>
    /\ tool_execs[1].outcome.status = "returned"
    /\ tool_execs[2].outcome.status = "returned"
    /\ api_calls[2].messages[3].content = BatchOfRound(1)

(***************************************************************************)
(* C34                                                                     *)
(***************************************************************************)
\* the k-th response signals tool use and holds no tool_use block
SignalsToolUseWithoutRequest(k) ==
    /\ Responded(k)
    /\ api_responses[k].value.stop_reason = "tool_use"
    /\ ToolUseBlocks(api_responses[k].value.content) = <<>>

\* C34: when a response signals tool use but its batch of tool-results is empty (it holds no
\* tool_use block), the round loop is left at once, even when rounds remain: no user message
\* is appended, no tool is executed, no further tool-enabled call is made, and exactly one
\* synthesis call follows, over a conversation whose last message is that response.
C34_EmptyBatchLeavesLoop ==
    \A k \in ToolCallIndexes : SignalsToolUseWithoutRequest(k) =>
        /\ pc \in {"synth", "idle"}
        /\ Len(messages) = 2 * k
        /\ messages[2 * k] = Message("assistant", api_responses[k].value.content)
        /\ \A j \in 1..Len(tool_execs) : tool_execs[j].round < k
        /\ Len(api_calls) <= k + 1
        /\ \A i \in (k + 1)..Len(api_calls) :
              /\ ~IsToolCall(api_calls[i])
              /\ api_calls[i].messages = messages
        /\ pc = "idle" => Len(api_calls) = k + 1
        /\ pc = "synth" => Len(api_calls) = k

\* with 2 rounds allowed, the first response signalled tool use without a request, and the
\* second call was the synthesis over the query and that response
C34_Witness ==
    /\ ToolEnabled
    /\ Done
    /\ max_rounds = 2
    /\ current_round = 1
    /\ SignalsToolUseWithoutRequest(1)
    /\ Len(api_calls) = 2
    /\ PlainCallIndexes = {2}
    /\ Len(messages) = 2
    /\ api_calls[2].messages = messages
    /\ tool_execs = <<>>

(***************************************************************************)
(* C35                                                                     *)
(***************************************************************************)
\* the guarantees of one query, read off the running call: at most max_rounds tool-enabled
\* model calls, and a loop notice only after two executions of the call itself
OwnBudget == Cardinality(ToolCallIndexes) <= max_rounds

OwnLoopNoticesOnly ==
    (\E i \in 1..Len(AllToolResults) : AllToolResults[i].content = LoopMessage) => Len(tool_execs) >= 2

\* the processor holds the records and the round of the running call, and nothing else
OwnProcessorState ==
    /\ Len(tool_call_history) = Len(tool_execs)
    /\ \A j \in 1..Len(tool_execs) :
          tool_call_history[j] = ToolCallRecord(tool_execs[j].name, tool_execs[j].kwargs, tool_execs[j].round)
    /\ current_round = Cardinality(ToolCallIndexes)

\* as long as no call in flight was suspended in favour of the other (the calls ran one after
\* the other), the guarantees hold
C35_SequentialKeepsGuarantees ==
    ~other_query.interleaved =>
        /\ OwnBudget
        /\ OwnLoopNoticesOnly
        /\ pc # "idle" => OwnProcessorState

\* a thread switch leaves the round counter, the call history and the summary as the suspended
\* call left them, for the resumed call to read; a call that starts resets them and a round
\* increments the counter, whatever the state of the other call
C35_SharedTrackerStep ==
    /\ other_query' # other_query =>
          UNCHANGED <<tool_call_history, current_round, gathered_info_summary>>
    /\ (other_query' = other_query /\ pc = "idle" /\ pc' # "idle") =>
          /\ tool_call_history' = <<>>
          /\ current_round' = 0
          /\ gathered_info_summary' = <<>>
    /\ (other_query' = other_query /\ Len(api_calls') = Len(api_calls) + 1 /\ IsToolCall(api_calls'[Len(api_calls')])) =>
          current_round' = current_round + 1

\* C35: the round tracker is one object for all the calls of a generator: with two queries in
\* flight, the reset and the round increments of one are what the other reads after a thread
\* switch; the per-query guarantees (at most max_rounds tool-enabled model calls, loop notices
\* only because of the query's own calls) hold as long as the queries run one after the other.
C35_TrackerSharedAcrossQueries ==
    /\ [](C35_SequentialKeepsGuarantees)
    /\ [][C35_SharedTrackerStep]_vars

\* with the other query in flight in between, the running query has made more tool-enabled
\* model calls than max_rounds and got a loop notice after one execution of its own
C35_Witness ==
    /\ other_query.interleaved
    /\ Cardinality(ToolCallIndexes) > max_rounds
    /\ \E i \in 1..Len(AllToolResults) : AllToolResults[i].content = LoopMessage
    /\ Len(tool_execs) = 1
    /\ other_query.tool_execs # <<>>

(***************************************************************************)
(* C36                                                                     *)
(***************************************************************************)
\* C36: the tool-enabled model calls of a query are its first calls, at most max_rounds of
\* them; the k-th is built after the counter became k, with the follow-up addition and
\* max_rounds - k remaining rounds when k < max_rounds and with the final-round addition
\* when k = max_rounds; the first-round addition is never part of a tool-enabled call, only
\* of the single call of a query without tools.
C36_RoundTypeAfterIncrement ==
    /\ ToolCallIndexes = 1..Cardinality(ToolCallIndexes)
    /\ \A k \in ToolCallIndexes :
          /\ k <= max_rounds
          /\ max_rounds - k >= 0
          /\ api_calls[k].system.addition # "FIRST_ROUND_PROMPT_ADDITION"
          /\ k < max_rounds =>
                /\ api_calls[k].system.addition = "FOLLOW_UP_PROMPT_ADDITION"
                /\ api_calls[k].system.remaining_rounds = max_rounds - k
          /\ k = max_rounds => api_calls[k].system.addition = "FINAL_ROUND_PROMPT_ADDITION"
    /\ \A i \in 1..Len(api_calls) :
          api_calls[i].system.addition = "FIRST_ROUND_PROMPT_ADDITION" =>
              /\ ~IsToolCall(api_calls[i])
              /\ ~ToolEnabled
              /\ Len(api_calls) = 1

\* a query of a generator with two rounds made both tool-enabled calls, the first with the
\* follow-up addition and one remaining round, the second with the final-round addition
C36_Witness ==
    /\ max_rounds = 2
    /\ ToolCallIndexes = {1, 2}
    /\ api_calls[1].system.addition = "FOLLOW_UP_PROMPT_ADDITION"
    /\ api_calls[1].system.remaining_rounds = 1
    /\ api_calls[2].system.addition = "FINAL_ROUND_PROMPT_ADDITION"

(***************************************************************************)
(* C37                                                                     *)
(***************************************************************************)
\* the records made before round r, and the call history as it was when the i-th request of
\* round r was checked: those records and one record for each earlier request of the batch
RecordsBefore(r) == Cardinality({j \in 1..Len(tool_call_history) : tool_call_history[j].round_num < r})
HistoryAtCheck(r, i) == SubSeq(tool_call_history, 1, RecordsBefore(r) + i - 1)

\* the entries of a batch of round r: a loop notice exactly where detect_loop flags the
\* request against the history of that moment
CheckedInTurn(r, batch) ==
    \A i \in 1..Len(batch) :
        LET request == RequestsOfRound(r)[i]
        IN  /\ RecordsBefore(r) + i - 1 <= Len(tool_call_history)
            /\ (batch[i].content = LoopMessage)
                  <=> detect_loop(HistoryAtCheck(r, i), request.name, request.input)

\* one record per attempted execution, in order, with the round in which it was made
C37_RecordPerAttempt ==
    /\ Len(tool_call_history) = Len(tool_execs)
    /\ Len(tool_call_history) = Cardinality({i \in 1..Len(AllToolResults) : AllToolResults[i].content # LoopMessage})
    /\ \A j \in 1..Len(tool_call_history) :
          LET record == tool_call_history[j]
          IN  /\ record.round_num \in 1..max_rounds
              /\ record.round_num = tool_execs[j].round
              /\ record.tool_name = tool_execs[j].name
              /\ record.parameters = tool_execs[j].kwargs
              /\ \E i \in 1..Len(RequestsOfRound(record.round_num)) :
                    RequestsOfRound(record.round_num)[i] =
                        ToolUse(record.tool_name, record.parameters, tool_execs[j].id)
    /\ \A j \in 1..(Len(tool_call_history) - 1) :
          tool_call_history[j].round_num <= tool_call_history[j + 1].round_num

C37_CheckedAgainstOwnBatch ==
    /\ pc = "exec" => CheckedInTurn(current_round, tool_results)
    /\ \A r \in AnsweredRounds : Len(messages) >= 2 * r + 1 /\ CheckedInTurn(r, BatchOfRound(r))

\* within a query the call history is extended by at most one record per step
C37_GrowsStep ==
    pc # "idle" =>
        \/ tool_call_history' = tool_call_history
        \/ \E record \in {ToolCallRecord(Head(pending).name, Head(pending).input, current_round)} :
              tool_call_history' = Append(tool_call_history, record)

\* C37: within a query the call history only grows; every request that passes the loop check
\* is recorded, whether its execution succeeds, fails or names no registered tool, so there
\* are as many records as attempted executions and none for a suppressed request; each
\* record carries the round (1..max_rounds) of the response that held the request; and each
\* request is checked against the history that already holds the earlier requests of its
\* own batch.
C37_RecordedBeforeExecuted ==
    /\ [](C37_RecordPerAttempt /\ C37_CheckedAgainstOwnBatch)
    /\ [][C37_GrowsStep]_vars

\* the first response held three identical requests: the first was executed and failed, the
\* second was executed, the third was suppressed; the history holds two records of round 1
C37_Witness ==
    /\ Len(messages) >= 3
    /\ messages[2].content = <<ReqA("tu1"), ReqA("tu2"), ReqA("tu3")>>
    /\ Len(BatchOfRound(1)) = 3
    /\ BatchOfRound(1)[3].content = LoopMessage
    /\ Len(tool_call_history) = 2
    /\ tool_call_history[1].round_num = 1 /\ tool_call_history[2].round_num = 1
    /\ tool_execs[1].outcome.status = "raised"

(***************************************************************************)
(* C38                                                                     *)
(***************************************************************************)
FracEq(x, y) == x[1] * y[2] = y[1] * x[2]
CommonKeys(params1, params2) == (DOMAIN params1) \cap (DOMAIN params2)
Restricted(params, keys) == [k \in keys |-> params[k]]

\* the two mappings have equal values under every key they share
AgreeOnShared(params1, params2) ==
    \A k \in CommonKeys(params1, params2) : ValueEq(params1[k], params2[k])

\* a key the mappings share, with unequal values of which one is no string
UnequalNonString(params1, params2) ==
    {k \in CommonKeys(params1, params2) :
        /\ ~ValueEq(params1[k], params2[k])
        /\ params1[k].type # "str" \/ params2[k].type # "str"}

\* a direct call of _calculate_parameter_similarity on two non-empty mappings
ComparedNonEmpty ==
    /\ proc_log.op = "_calculate_parameter_similarity"
    /\ DOMAIN proc_log.params1 # {}
    /\ DOMAIN proc_log.params2 # {}

\* what holds of the similarity of two non-empty mappings whether or not they share a key
SimilarityAlgebra ==
    LET p1 == proc_log.params1
        p2 == proc_log.params2
        common == CommonKeys(p1, p2)
        value == proc_log.value
    IN  /\ FracEq(value, _calculate_parameter_similarity(p2, p1))
        /\ value[2] > 0 /\ 0 <= value[1] /\ value[1] <= value[2]
        /\ common # {} =>
              /\ FracEq(value, _calculate_parameter_similarity(Restricted(p1, common), Restricted(p2, common)))
              /\ value[1] * Cardinality(common) <=
                     value[2] * (Cardinality(common) - Cardinality(UnequalNonString(p1, p2)))

\* a direct call of detect_loop for a request that agrees, on at least one shared key and on
\* every shared key, with a record of the same tool among the three most recent
ProbedNearRecent ==
    /\ proc_log.op = "detect_loop"
    /\ \E i \in 1..Len(Recent(proc_log.history)) :
          LET record == Recent(proc_log.history)[i]
          IN  /\ record.tool_name = proc_log.tool_name
              /\ CommonKeys(record.parameters, proc_log.params1) # {}
              /\ AgreeOnShared(record.parameters, proc_log.params1)

====
